---- MODULE Spec2Model ----
(***************************************************************************)
(* Model of sk-toolbox, asobi-comment/xml2ass.py: NicoXML2ASS.load_xml and *)
(* NicoXML2ASS.convert_to_ass (classifier, lane scheduler, renderer and    *)
(* track assembler), and of asobi-comment/json2xml.py:                     *)
(* convert_json_to_xml.                                                    *)
(*                                                                         *)
(* Numbers.  Python floats are modelled as exact rationals [n, d] with     *)
(* d > 0 in lowest terms; a division by a zero rational is Python's        *)
(* ZeroDivisionError and is modelled as the conversion ending in           *)
(* pc = "error".                                                           *)
(*                                                                         *)
(* Text.  A comment text is a sequence of pieces; every piece stands for a *)
(* fixed string of known length (PieceLen), so that len(), startswith()    *)
(* and the substring tests of the code are computed, not assumed.          *)
(***************************************************************************)
EXTENDS Integers, Sequences, FiniteSets, TLC

VARIABLES
    config,                    \* self.config
    ingested,                  \* self.all_danmaku as load_xml left it
    all_danmaku,               \* self.all_danmaku
    office_ids,                \* self.office_ids
    aa_start_times,            \* self.aa_start_times
    pc,                        \* "new" | "loaded" | "converting" | "done" | "error"
    idx,                       \* position of the for loop of convert_to_ass
    danmaku_passageway,        \* the four lane arrays of convert_to_ass
    danmaku_passageway_width,
    danmaku_passageway_speed,
    danmaku_passageway_finish,
    office_lines,
    shita_lines,
    aa_lines,
    normal_lines,
    outcome,                   \* per comment index: the branch of the loop body that handled it
    assigned,                  \* trace of lane assignments made by the scheduler
    result,                    \* document returned by the latest convert_to_ass
    first_result,              \* document returned by the first convert_to_ass
    calls,                     \* number of convert_to_ass calls started
    comments_list,             \* json2xml: the comment events read from the JSON file
    json_pc,                   \* json2xml: "idle" | "writing" | "done" | "error"
    xml_comment_number,        \* json2xml: the counter of convert_json_to_xml
    xml_chats,                 \* json2xml: the chat elements written so far
    dl_pc,                     \* comment_dl: "idle" | "loop" | "saving" | "done" | "error" | "save_error"
    dl_i,                      \* comment_dl: i of the request loop
    empty_count,               \* comment_dl: empty_count
    seen_comment_ids,          \* comment_dl: seen_comment_ids
    all_comments,              \* comment_dl: all_comments
    responses,                 \* comment_dl: per response received, its kind and whether it held a new comment
    saved_file,                \* comment_dl: the list written to the output file
    occurred,                  \* comment_dl: the comments of the parsed responses, in order of first occurrence
    rec_pc,                    \* replive_recorder: "monitoring" | "stopped"
    token_valid,               \* replive_recorder: TokenManager holds an access token that has not expired
    recordings,                \* replive_recorder: self.recordings, live id -> process of its session
    procs,                     \* replive_recorder: every ffmpeg process started, in order of its start
    checked,                   \* replive_recorder: outcome of the latest check_live
    ended_sessions,            \* replive_recorder: sessions ended by the latest cleanup_ended_recordings
    starts,                    \* replive_recorder: the start_recording calls of the latest iteration
    rec_iterations,            \* replive_recorder: iterations of the monitoring loop done
    vc_config,                 \* video_cutter: the configuration of the VideoProcessor
    vc_pc,                     \* video_cutter: "entered" | "extracting" | "merging" | "returned" | "raised"
    vc_i,                      \* video_cutter: segments handled by the loop of process()
    segment_files,             \* video_cutter: segment_files of process()
    commands,                  \* video_cutter: the ffmpeg commands run, in order, each with its outcome
    vc_result                  \* video_cutter: what process() returned

\* the variables of json2xml.py
jvars == <<comments_list, json_pc, xml_comment_number, xml_chats>>

\* the variables of xml2ass.py
xvars == <<config, ingested, all_danmaku, office_ids, aa_start_times, pc, idx,
           danmaku_passageway, danmaku_passageway_width, danmaku_passageway_speed,
           danmaku_passageway_finish, office_lines, shita_lines, aa_lines,
           normal_lines, outcome, assigned, result, first_result, calls>>

\* the variables of comment_dl.py
dvars == <<dl_pc, dl_i, empty_count, seen_comment_ids, all_comments, responses, saved_file,
           occurred>>

\* the variables of replive_recorder.py
rvars == <<rec_pc, token_valid, recordings, procs, checked, ended_sessions, starts,
           rec_iterations>>

\* the variables of video_cutter.py
cvars == <<vc_config, vc_pc, vc_i, segment_files, commands, vc_result>>

vars == <<xvars, jvars, dvars, rvars, cvars>>

----------------------------------------------------------------------------
(* Bounds of the model *)

MaxChats == 2          \* chat elements in one XML file
MaxCalls == 2          \* convert_to_ass calls on one converter
MaxEvents == 2         \* comment events in one JSON file
MaxBatch == 2          \* comments in the archive list of one response
stop_after_empty == 2  \* comment_dl.stop_after_empty, 20 in the program
max_requests == 4      \* comment_dl.max_requests, 10000 in the program

----------------------------------------------------------------------------
(* Program constants *)

VIDEO_WIDTH == 1280
AA_MIN_LENGTH == 70
SHORT_LENGTH == 4
LONG_LENGTH == 12
BASE_SPEED_MS == 6000
LINE_HEIGHT == 64
NORMAL_DURATION == 16
OFFICE_DURATION == 10
AA_DURATION == 8
SHITA_DURATION == 6

----------------------------------------------------------------------------
(* Exact rational arithmetic standing for Python's float arithmetic *)

Abs(x) == IF x < 0 THEN -x ELSE x

RECURSIVE Gcd(_, _)
Gcd(a, b) == IF b = 0 THEN a ELSE Gcd(b, a % b)

RNorm(n, d) ==
    LET g == Gcd(Abs(n), Abs(d))
        s == IF d < 0 THEN -1 ELSE 1
    IN  [n |-> (s * n) \div g, d |-> (s * d) \div g]

RInt(k) == [n |-> k, d |-> 1]
RNeg(a) == [n |-> -a.n, d |-> a.d]
RIsZero(a) == a.n = 0
\* the common factors are divided out before the products are formed
RAdd(a, b) ==
    LET g == Gcd(a.d, b.d)
    IN  RNorm(a.n * (b.d \div g) + b.n * (a.d \div g), (a.d \div g) * b.d)
RSub(a, b) == RAdd(a, RNeg(b))
RMul(a, b) ==
    LET g1 == Gcd(Abs(a.n), b.d)
        g2 == Gcd(Abs(b.n), a.d)
    IN  RNorm((a.n \div g1) * (b.n \div g2), (a.d \div g2) * (b.d \div g1))
\* a / b; the caller has checked that b is not zero
RDiv(a, b) == RMul(a, IF b.n < 0 THEN [n |-> -b.d, d |-> -b.n] ELSE [n |-> b.d, d |-> b.n])

RECURSIVE FracLt(_, _, _, _)
\* n1 / d1 < n2 / d2 for d1, d2 > 0, by integer parts and then remainders
FracLt(n1, d1, n2, d2) ==
    LET q1 == n1 \div d1
        q2 == n2 \div d2
        r1 == n1 % d1
        r2 == n2 % d2
    IN  IF q1 # q2 THEN q1 < q2
        ELSE IF r2 = 0 THEN FALSE
        ELSE IF r1 = 0 THEN TRUE
        ELSE FracLt(d2, r2, d1, r1)

RLt(a, b) == FracLt(a.n, a.d, b.n, b.d)
RGt(a, b) == RLt(b, a)
RGe(a, b) == ~RLt(a, b)
\* math.floor
RFloor(a) == a.n \div a.d
\* int(): truncation towards zero
RTrunc(a) == IF a.n >= 0 THEN a.n \div a.d ELSE -((-a.n) \div a.d)
\* Python's a % m for m > 0
RMod(a, m) == RSub(a, RInt(m * RFloor(RDiv(a, RInt(m)))))

----------------------------------------------------------------------------
(* Texts: sequences of pieces *)

\* '※ NGコメントです ※'
NG_TEXT == <<"NG">>

PieceLen(p) ==
    CASE p = "a"            -> 1      \* an ordinary character
      [] p = "/"            -> 1
      [] p = "\n"           -> 1
      [] p = "kw"           -> 2      \* the configured filter keyword
      [] p = "/vote"        -> 5
      [] p = "/info"        -> 5
      [] p = "/clear"       -> 6
      [] p = "/nicoad"      -> 7
      [] p = "/trialpanel"  -> 11
      [] p = "NG"           -> 11     \* the placeholder marker, as one piece
      [] p = "a4"           -> 4      \* runs of ordinary characters
      [] p = "a8"           -> 8
      [] p = "a64"          -> 64

SlashPieces == {"/", "/vote", "/info", "/clear", "/nicoad", "/trialpanel"}

RECURSIVE TextLen(_)
\* len(text)
TextLen(t) == IF t = <<>> THEN 0 ELSE PieceLen(Head(t)) + TextLen(Tail(t))

\* text.startswith('/')
StartsWithSlash(t) == t # <<>> /\ Head(t) \in SlashPieces

\* x in text, for the strings x the code looks for; the empty string is in every text
Contains(t, x) == x = "" \/ \E i \in 1..Len(t) : t[i] = x

\* len(text.split('\n'))
LineCount(t) == 1 + Cardinality({i \in 1..Len(t) : t[i] = "\n"})

\* 'shita' in mail: the mail is a sequence of space separated parts
MailHas(mail, x) == \E i \in 1..Len(mail) : mail[i] = x

----------------------------------------------------------------------------
(* load_xml *)

RECURSIVE InsertByVpos_TieByLength(_, _)
\* faulty variant: a sort that orders comments of equal vpos by the length of their text
InsertByVpos_TieByLength(sorted, d) ==
    IF sorted = <<>> THEN <<d>>
    ELSE IF \/ d.vpos < Head(sorted).vpos
            \/ d.vpos = Head(sorted).vpos /\ TextLen(d.text) < TextLen(Head(sorted).text)
         THEN <<d>> \o sorted
    ELSE <<Head(sorted)>> \o InsertByVpos_TieByLength(Tail(sorted), d)

RECURSIVE InsertByVpos(_, _)
\* insert d after every element whose vpos is not greater (list.sort is stable)
InsertByVpos(sorted, d) ==
    IF sorted = <<>> THEN <<d>>
    ELSE IF d.vpos < Head(sorted).vpos THEN <<d>> \o sorted
    ELSE <<Head(sorted)>> \o InsertByVpos(Tail(sorted), d)

RECURSIVE SortByVpos(_)
\* all_danmaku.sort(key=lambda x: x['vpos'])
SortByVpos(s) ==
    IF s = <<>> THEN <<>>
    ELSE InsertByVpos(SortByVpos(SubSeq(s, 1, Len(s) - 1)), s[Len(s)])

OFFICE_ID_EXCLUDED == {"/trialpanel", "/nicoad", "/spi", "/gift", "/info", "/commentlock"}

\* faulty variant: the detection loop stops one comment short of the end
CheckOfficeIds_SkipsLast(danmakus, cfg) ==
    {danmakus[i].user_id : i \in {j \in 1..(Len(danmakus) - 1) :
          /\ danmakus[j].premium = "2"
          /\ ~\E x \in OFFICE_ID_EXCLUDED : Contains(danmakus[j].text, x)}}
    \cup cfg.manual_add_office_id

\* _check_office_ids: the auto-detected ids, extended by the manual ones
CheckOfficeIds(danmakus, cfg) ==
    {danmakus[i].user_id : i \in {j \in 1..Len(danmakus) :
          /\ danmakus[j].premium = "2"
          /\ ~\E x \in OFFICE_ID_EXCLUDED : Contains(danmakus[j].text, x)}}
    \cup cfg.manual_add_office_id

----------------------------------------------------------------------------
(* Colours: _get_color_ass *)

\* the characters of the parts a mail attribute of the model is made of
PartChars(p) ==
    CASE p = "shita" -> <<"s", "h", "i", "t", "a">>
      [] p = "184" -> <<"1", "8", "4">>
      [] p = "red" -> <<"r", "e", "d">>
      [] p = "red2" -> <<"r", "e", "d", "2">>
      [] p = "#FF8000" -> <<"#", "F", "F", "8", "0", "0", "0">>
      [] p = "#zzzzzz" -> <<"#", "z", "z", "z", "z", "z", "z">>

DIGITS == {"0", "1", "2", "3", "4", "5", "6", "7", "8", "9"}

\* the table CSS2ASS of the class
CSS2ASS ==
    {[name |-> <<"w", "h", "i", "t", "e">>,
      hex  |-> <<"#", "F", "F", "F", "F", "F", "F">>],
     [name |-> <<"r", "e", "d">>,
      hex  |-> <<"#", "F", "F", "0", "0", "0", "0">>],
     [name |-> <<"p", "i", "n", "k">>,
      hex  |-> <<"#", "F", "F", "8", "0", "8", "0">>],
     [name |-> <<"o", "r", "a", "n", "g", "e">>,
      hex  |-> <<"#", "F", "F", "A", "5", "0", "0">>],
     [name |-> <<"y", "e", "l", "l", "o", "w">>,
      hex  |-> <<"#", "F", "F", "F", "F", "0", "0">>],
     [name |-> <<"g", "r", "e", "e", "n">>,
      hex  |-> <<"#", "0", "0", "F", "F", "0", "0">>],
     [name |-> <<"c", "y", "a", "n">>,
      hex  |-> <<"#", "0", "0", "F", "F", "F", "F">>],
     [name |-> <<"b", "l", "u", "e">>,
      hex  |-> <<"#", "0", "0", "0", "0", "F", "F">>],
     [name |-> <<"p", "u", "r", "p", "l", "e">>,
      hex  |-> <<"#", "C", "0", "0", "0", "F", "F">>],
     [name |-> <<"b", "l", "a", "c", "k">>,
      hex  |-> <<"#", "0", "0", "0", "0", "0", "0">>],
     [name |-> <<"w", "h", "i", "t", "e", "2">>,
      hex  |-> <<"#", "C", "C", "C", "C", "9", "9">>],
     [name |-> <<"n", "i", "c", "o", "n", "i", "c", "o", "w", "h", "i", "t", "e">>,
      hex  |-> <<"#", "C", "C", "C", "C", "9", "9">>],
     [name |-> <<"r", "e", "d", "2">>,
      hex  |-> <<"#", "C", "C", "0", "0", "3", "3">>],
     [name |-> <<"t", "r", "u", "e", "r", "e", "d">>,
      hex  |-> <<"#", "C", "C", "0", "0", "3", "3">>],
     [name |-> <<"p", "i", "n", "k", "2">>,
      hex  |-> <<"#", "F", "F", "3", "3", "C", "C">>],
     [name |-> <<"o", "r", "a", "n", "g", "e", "2">>,
      hex  |-> <<"#", "F", "F", "6", "6", "0", "0">>],
     [name |-> <<"p", "a", "s", "s", "i", "o", "n", "o", "r", "a", "n", "g", "e">>,
      hex  |-> <<"#", "F", "F", "6", "6", "0", "0">>],
     [name |-> <<"y", "e", "l", "l", "o", "w", "2">>,
      hex  |-> <<"#", "9", "9", "9", "9", "0", "0">>],
     [name |-> <<"m", "a", "d", "y", "e", "l", "l", "o", "w">>,
      hex  |-> <<"#", "9", "9", "9", "9", "0", "0">>],
     [name |-> <<"g", "r", "e", "e", "n", "2">>,
      hex  |-> <<"#", "0", "0", "C", "C", "6", "6">>],
     [name |-> <<"e", "l", "e", "m", "e", "n", "t", "a", "l", "g", "r", "e", "e", "n">>,
      hex  |-> <<"#", "0", "0", "C", "C", "6", "6">>],
     [name |-> <<"c", "y", "a", "n", "2">>,
      hex  |-> <<"#", "0", "0", "C", "C", "C", "C">>],
     [name |-> <<"b", "l", "u", "e", "2">>,
      hex  |-> <<"#", "3", "3", "9", "9", "F", "F">>],
     [name |-> <<"m", "a", "r", "i", "n", "e", "b", "l", "u", "e">>,
      hex  |-> <<"#", "3", "3", "9", "9", "F", "F">>],
     [name |-> <<"p", "u", "r", "p", "l", "e", "2">>,
      hex  |-> <<"#", "6", "6", "3", "3", "C", "C">>],
     [name |-> <<"n", "o", "b", "l", "e", "v", "i", "o", "l", "e", "t">>,
      hex  |-> <<"#", "6", "6", "3", "3", "C", "C">>],
     [name |-> <<"b", "l", "a", "c", "k", "2">>,
      hex  |-> <<"#", "6", "6", "6", "6", "6", "6">>]}

RECURSIVE StripDigits(_)
\* re.sub(r'\d+', '', part)
StripDigits(chars) ==
    IF chars = <<>> THEN <<>>
    ELSE IF Head(chars) \in DIGITS THEN StripDigits(Tail(chars))
    ELSE <<Head(chars)>> \o StripDigits(Tail(chars))

\* f"H{hex[5:7]}{hex[3:5]}{hex[1:3]}" for a string '#RRGGBB'
ReorderHex(hex) == <<"H", hex[6], hex[7], hex[4], hex[5], hex[2], hex[3]>>

\* "HFFFFFF"
WHITE_ASS == <<"H", "F", "F", "F", "F", "F", "F">>

\* part.startswith('#') and len(part) == 7
LooksLikeHex(chars) == Len(chars) = 7 /\ chars[1] = "#"

RECURSIVE ColorOfParts(_)
\* the for loop over the parts: the first part that looks like a hex colour
\* or is, without its digits, a name of the table decides
ColorOfParts(parts) ==
    IF parts = <<>> THEN WHITE_ASS
    ELSE LET chars == PartChars(Head(parts))
             name  == StripDigits(chars)
         IN  IF LooksLikeHex(chars) THEN ReorderHex(chars)
             ELSE IF \E e \in CSS2ASS : e.name = name
                  THEN ReorderHex((CHOOSE e \in CSS2ASS : e.name = name).hex)
             ELSE ColorOfParts(Tail(parts))

\* _get_color_ass
GetColorAss(mail) == IF mail = <<>> THEN WHITE_ASS ELSE ColorOfParts(mail)

\* lines 392-394: the colour of a Normal directive
NormalColor(d, cfg) ==
    IF cfg.use_ass_colors /\ d.mail # <<>> THEN GetColorAss(d.mail) ELSE WHITE_ASS

----------------------------------------------------------------------------
(* Renderer *)

\* The times, in centiseconds, for which (seconds % 1) * 100 of _format_time
\* falls just below the whole number of centiseconds when Python computes it
\* in binary floating point (for 16.02 it is 1.9999999999999574).  Listed
\* for the times the runs of the model format: vpos / 100 + k with vpos
\* below 100 in {1, 2, 5} and k a duration of the code (0, 6, 8, 10, 16),
\* with and without a time offset of 1.0; whole seconds are exact.
FLOAT_FALLS_SHORT == {601, 602, 605, 801, 802, 1001, 1002, 1602, 1702}

\* int((seconds % 1) * 100): the truncation of the floating-point product
Centisecs(seconds) ==
    LET exact == RTrunc(RMul(RMod(seconds, 1), RInt(100)))
    IN  IF \E c \in FLOAT_FALLS_SHORT : seconds = RNorm(c, 100) THEN exact - 1 ELSE exact

\* _format_time: H:MM:SS.CS of a number of seconds
FormatTime(seconds) ==
    [h  |-> RFloor(RDiv(seconds, RInt(3600))),
     m  |-> RFloor(RDiv(RMod(seconds, 3600), RInt(60))),
     s  |-> RTrunc(RMod(seconds, 60)),
     cs |-> Centisecs(seconds)]

\* _format_time_mm_ss
FormatTimeMmSs(seconds) ==
    [m |-> RFloor(RDiv(seconds, RInt(60))), s |-> RTrunc(RMod(seconds, 60))]

\* danmaku['vpos'] / 100
VposSeconds(d) == RNorm(d.vpos, 100)

\* the value None of an Optional[str]
None == [style |-> "None"]

OFFICE_SKIPPED == {"/vote", "/nicoad", "/gift", "/spi", "/info", "/clear"}

\* _process_office_danmaku: the background line and the text line, or None.
\* The texts of the model hold no space, no markup and no link, so the text
\* is rendered as it is.
ProcessOfficeDanmaku(d, k) ==
    IF \E x \in OFFICE_SKIPPED : Contains(d.text, x) THEN None
    ELSE [style     |-> "Office",
          src       |-> k,
          start     |-> FormatTime(VposSeconds(d)),
          end       |-> FormatTime(RAdd(VposSeconds(d), RInt(OFFICE_DURATION))),
          dialogues |-> 2,
          bg_height |-> 32 + 32 * (LineCount(d.text) - 1),
          text      |-> d.text]

\* _process_aa_danmaku: one dialogue per line of the text, or None
ProcessAaDanmaku(d, k) ==
    IF StartsWithSlash(d.text) THEN None
    ELSE [style     |-> "AA",
          src       |-> k,
          start     |-> FormatTime(VposSeconds(d)),
          end       |-> FormatTime(RAdd(VposSeconds(d), RInt(AA_DURATION))),
          dialogues |-> LineCount(d.text),
          is_fixed  |-> \E x \in {"shita", "ue", "naka"} : MailHas(d.mail, x),
          color     |-> GetColorAss(d.mail),
          text      |-> d.text]

\* faulty variant: the bottom renderer skips texts that begin with '/', as
\* the large-art renderer does
ProcessShitaDanmaku_SkipsCommands(d, k) ==
    IF StartsWithSlash(d.text) THEN None
    ELSE [style |-> "Shita", src |-> k,
          start |-> FormatTime(VposSeconds(d)),
          end   |-> FormatTime(RAdd(VposSeconds(d), RInt(SHITA_DURATION))),
          dialogues |-> 1, color |-> GetColorAss(d.mail), text |-> d.text]

\* _process_shita_danmaku
ProcessShitaDanmaku(d, k) ==
    [style     |-> "Shita",
     src       |-> k,
     start     |-> FormatTime(VposSeconds(d)),
     end       |-> FormatTime(RAdd(VposSeconds(d), RInt(SHITA_DURATION))),
     dialogues |-> 1,
     color     |-> GetColorAss(d.mail),
     text      |-> d.text]

----------------------------------------------------------------------------
(* Lane scheduler: _process_normal_danmaku *)

\* _calc_text_length: both branches add 2 per character
CalcTextLength(t) == (2 * TextLen(t)) \div 2

TextWidth(d, cfg) == CalcTextLength(d.text) * (cfg.danmaku_size + 2)

\* start_seconds = vpos / 100 + start_time_adjust
StartSeconds(d, cfg) == RAdd(VposSeconds(d), cfg.start_time_adjust)

\* real_speed, in milliseconds
RealSpeed(d, cfg) ==
    LET len    == CalcTextLength(d.text)
        unit   == cfg.danmaku_size + 2
        adjust == RMul(RInt(1000), cfg.danmaku_speed_adjust)
    IN  IF cfg.use_speed_a /\ len <= SHORT_LENGTH
        THEN RAdd(RInt((BASE_SPEED_MS - SHORT_LENGTH * unit)
                       + RTrunc(RMul(RInt(SHORT_LENGTH * unit), RNorm(len, SHORT_LENGTH)))),
                  adjust)
        ELSE IF cfg.use_speed_a /\ len >= LONG_LENGTH
        THEN RAdd(RInt(BASE_SPEED_MS + RTrunc(RInt(2 * unit * (len - LONG_LENGTH)))), adjust)
        ELSE RAdd(RInt(BASE_SPEED_MS), adjust)

\* real_speed / 1000 is zero: the division of line 345 raises
SpeedRaises(d, cfg) == RIsZero(RDiv(RealSpeed(d, cfg), RInt(1000)))

\* average_speed = (VIDEO_WIDTH + text_width) / (real_speed / 1000)
AverageSpeed(d, cfg) ==
    RDiv(RInt(VIDEO_WIDTH + TextWidth(d, cfg)), RDiv(RealSpeed(d, cfg), RInt(1000)))

\* passageway[i] == 0: the lane counts as never occupied
LaneIsFree(p, i) == RIsZero(p[i])

\* range_dist = (start_seconds - passageway[i]) * passageway_speed[i] + danmaku_density
RangeDist(start, p, ps, i, cfg) ==
    RAdd(RMul(RSub(start, p[i]), ps[i]), RInt(cfg.danmaku_density))

\* catch_time = (range_dist - passageway_width[i]) / (average_speed - passageway_speed[i])
CatchTime(start, avg, p, pw, ps, i, cfg) ==
    RDiv(RSub(RangeDist(start, p, ps, i, cfg), RInt(pw[i])), RSub(avg, ps[i]))

\* what the body of the lane loop does with lane i for a comment of width w:
\* "free", "reuse" and "catch" assign the lane, "reject" goes on to the next
\* lane, "error" is the ZeroDivisionError of the catch_time division
LaneVerdict(start, w, avg, p, pw, ps, pf, i, cfg) ==
    IF LaneIsFree(p, i) THEN "free"
    ELSE IF ~RGe(RangeDist(start, p, ps, i, cfg), RInt(pw[i])) THEN "reject"
    ELSE IF pw[i] >= w THEN "reuse"
    ELSE IF RIsZero(RSub(avg, ps[i])) THEN "error"
    ELSE IF /\ RGt(CatchTime(start, avg, p, pw, ps, i, cfg), RInt(0))
            /\ RLt(RSub(pf[i], RSub(start, p[i])), CatchTime(start, avg, p, pw, ps, i, cfg))
         THEN "catch"
    ELSE "reject"

RECURSIVE ScanLanes(_, _, _, _, _, _, _, _, _)
\* for i in range(len(passageway)): the first lane that is not rejected
ScanLanes(i, start, w, avg, p, pw, ps, pf, cfg) ==
    IF i > Len(p) THEN [verdict |-> "none", lane |-> 0]
    ELSE LET v == LaneVerdict(start, w, avg, p, pw, ps, pf, i, cfg)
         IN  IF v = "reject" THEN ScanLanes(i + 1, start, w, avg, p, pw, ps, pf, cfg)
             ELSE [verdict |-> v, lane |-> i]

\* faulty variant: the assignment written to every lane
AssignLane_All(arr, i, v) == [j \in DOMAIN arr |-> v]

\* passageway[i] = v, and likewise for the three other lane arrays
AssignLane(arr, i, v) == [arr EXCEPT ![i] = v]

\* faulty variant: the vertical position taken at the top of the lane
LaneY_Top(i) == LINE_HEIGHT * (i - 1)

\* sy = danmaku_line_height // 2 + danmaku_line_height * passageway_index,
\* for lane i counted from 1
LaneY(i) == LINE_HEIGHT \div 2 + LINE_HEIGHT * (i - 1)

\* _process_normal_danmaku for the comment at index k.  The result holds
\* whether the call raised, the lane arrays after the call and the line
\* returned (None when no lane took the comment).  Lanes are numbered from 1
\* here; passageway_index of the code is lane - 1.
ProcessNormalDanmaku(d, k, p, pw, ps, pf, cfg) ==
    LET start == StartSeconds(d, cfg)
        w     == TextWidth(d, cfg)
        same  == [raised |-> FALSE, p |-> p, pw |-> pw, ps |-> ps, pf |-> pf,
                  line |-> None, how |-> "none", lane |-> 0]
    IN  IF SpeedRaises(d, cfg) THEN [same EXCEPT !.raised = TRUE]
        ELSE
        LET avg  == AverageSpeed(d, cfg)
            scan == ScanLanes(1, start, w, avg, p, pw, ps, pf, cfg)
            i    == scan.lane
        IN  IF scan.verdict = "none" THEN same
            ELSE IF scan.verdict = "error" \/ RIsZero(avg) THEN [same EXCEPT !.raised = TRUE]
            ELSE [raised |-> FALSE,
                  p      |-> AssignLane(p, i, start),
                  pw     |-> AssignLane(pw, i, w),
                  ps     |-> AssignLane(ps, i, avg),
                  pf     |-> AssignLane(pf, i, RDiv(RInt(VIDEO_WIDTH), avg)),
                  how    |-> scan.verdict,
                  lane   |-> i,
                  line   |-> [style      |-> "Danmaku",
                              src        |-> k,
                              start      |-> FormatTime(start),
                              end        |-> FormatTime(RAdd(RAdd(VposSeconds(d),
                                                 RInt(NORMAL_DURATION)), cfg.start_time_adjust)),
                              dialogues  |-> 1,
                              sx         |-> VIDEO_WIDTH,
                              sy         |-> LaneY(i),
                              ex         |-> -w,
                              real_speed |-> RealSpeed(d, cfg),
                              color      |-> NormalColor(d, cfg),
                              alpha      |-> cfg.difficult_vip /\ d.premium = "25",
                              text       |-> d.text]]

----------------------------------------------------------------------------
(* Classifier: the body of the for loop of convert_to_ass *)

\* faulty variant: the length test placed before the operator test
BRANCHES_AaFirst == <<"invalid", "negative", "keyword", "aa", "office", "shita",
                      "outsider", "slash", "normal">>

\* faulty variant: the membership test placed before the operator test
BRANCHES_OutsiderFirst == <<"invalid", "negative", "keyword", "outsider", "office", "aa",
                            "shita", "slash", "normal">>

\* the tests of the loop body, in the order of the code; "normal" is the
\* call of _process_normal_danmaku that ends the body
BRANCHES == <<"invalid", "negative", "keyword", "office", "aa", "shita",
              "outsider", "slash", "normal">>

\* danmaku.get('type'): load_xml builds no 'type' key
DanmakuType(d) == "absent"

\* faulty variant: the threshold test written with > instead of >=
IsAaLength_Strict(d) == TextLen(d.text) > AA_MIN_LENGTH

\* len(danmaku['text']) >= 70
IsAaLength(d) == TextLen(d.text) >= AA_MIN_LENGTH

\* the condition of each test
BranchTaken(b, d, cfg, ids) ==
    CASE b = "invalid"  -> d.text = <<>> \/ d.text = NG_TEXT
      [] b = "negative" -> d.vpos < 0
      [] b = "keyword"  -> \E kw \in cfg.filter_keywords : kw # "" /\ Contains(d.text, kw)
      [] b = "office"   -> d.user_id \in ids
      [] b = "aa"       -> IsAaLength(d)
      [] b = "shita"    -> MailHas(d.mail, "shita") \/ DanmakuType(d) = "official"
      [] b = "outsider" -> cfg.filter_outsider /\ d.premium = "25"
      [] b = "slash"    -> StartsWithSlash(d.text)
      [] b = "normal"   -> TRUE

\* faulty variant: the continue that ends the operator branch is missing
BranchContinues_OfficeFallsThrough(b) == b # "office"

\* every test ends in continue; the call of _process_normal_danmaku ends the body
BranchContinues(b) == TRUE

\* lines 143-144: the time adjustment made before the operator test
Rescaled(d) ==
    IF d.date = 0 /\ d.date_usec = 0 /\ d.premium = "2"
    THEN [d EXCEPT !.vpos = d.vpos * 100]
    ELSE d

RECURSIVE WalkBody(_, _, _, _)
\* one pass through the loop body from test i on: the tests that handled the
\* comment, and the comment as the pass leaves it in all_danmaku
WalkBody(i, d, cfg, ids) ==
    IF i > Len(BRANCHES) THEN [taken |-> {}, d |-> d]
    ELSE LET b  == BRANCHES[i]
             dd == IF b = "office" THEN Rescaled(d) ELSE d
         IN  IF BranchTaken(b, dd, cfg, ids)
             THEN IF BranchContinues(b) THEN [taken |-> {b}, d |-> dd]
                  ELSE LET r == WalkBody(i + 1, dd, cfg, ids)
                       IN  [taken |-> {b} \cup r.taken, d |-> r.d]
             ELSE WalkBody(i + 1, dd, cfg, ids)

\* the category of the specification a test stands for
CategoryOf(b) ==
    CASE b = "office" -> "Office"
      [] b = "aa"     -> "AA"
      [] b = "shita"  -> "Shita"
      [] b = "normal" -> "Normal"
      [] OTHER        -> "Dropped"

AppendLine(lines, line) == IF line = None THEN lines ELSE Append(lines, line)

----------------------------------------------------------------------------
(* Track assembler: lines 185-205 *)

Block(name, lines) ==
    IF lines = <<>> THEN <<>>
    ELSE <<[style |-> "Comment", name |-> name, mark |-> "begin"]>> \o lines
         \o <<[style |-> "Comment", name |-> name, mark |-> "end"]>>

\* faulty variant: the AA block written before the Shita block
Document_AaBeforeShita(cfg, office, shita, aa, normal) ==
    [header |-> [width |-> VIDEO_WIDTH, danmaku_size |-> cfg.danmaku_size],
     lines  |-> Block("Office", office) \o Block("AA", aa) \o Block("Shita", shita) \o normal]

Document(cfg, office, shita, aa, normal) ==
    [header |-> [width |-> VIDEO_WIDTH, danmaku_size |-> cfg.danmaku_size],
     lines  |-> Block("Office", office) \o Block("Shita", shita) \o Block("AA", aa) \o normal]

----------------------------------------------------------------------------
(* Actions *)

NoDocument == [header |-> "none", lines |-> <<>>]

\* RepliveRecorder.recordings when no session exists
NoRecordings == [live_id \in {} |-> 0]

\* no status check made yet
NotChecked == [kind |-> "none", lives |-> <<>>]

\* the configuration written by load_config on the first run, with one of its
\* example segments enabled
DefaultCutterConfig ==
    [input_exists |-> TRUE, merge_output |-> TRUE, temp_dir |-> TRUE,
     segments |-> << <<"00:03:15", "00:05:12">> >>]

\* every program constructed, none started
InitFor(Configs, CutterConfigs) ==
    /\ config \in Configs
    /\ ingested = <<>>
    /\ all_danmaku = <<>>
    /\ office_ids = {}
    /\ aa_start_times = <<>>
    /\ pc = "new"
    /\ idx = 0
    /\ danmaku_passageway = <<>>
    /\ danmaku_passageway_width = <<>>
    /\ danmaku_passageway_speed = <<>>
    /\ danmaku_passageway_finish = <<>>
    /\ office_lines = <<>>
    /\ shita_lines = <<>>
    /\ aa_lines = <<>>
    /\ normal_lines = <<>>
    /\ outcome = <<>>
    /\ assigned = <<>>
    /\ result = NoDocument
    /\ first_result = NoDocument
    /\ calls = 0
    /\ comments_list = <<>>
    /\ json_pc = "idle"
    /\ xml_comment_number = 0
    /\ xml_chats = <<>>
    /\ dl_pc = "idle"
    /\ dl_i = 0
    /\ empty_count = 0
    /\ seen_comment_ids = {}
    /\ all_comments = <<>>
    /\ responses = <<>>
    /\ saved_file = <<>>
    /\ occurred = <<>>
    /\ rec_pc = "monitoring"
    /\ token_valid = TRUE
    /\ recordings = NoRecordings
    /\ procs = <<>>
    /\ checked = NotChecked
    /\ ended_sessions = {}
    /\ starts = <<>>
    /\ rec_iterations = 0
    /\ vc_config \in CutterConfigs
    /\ vc_pc = "entered"
    /\ vc_i = 0
    /\ segment_files = <<>>
    /\ commands = <<>>
    /\ vc_result = "none"

\* NicoXML2ASS(config)
InitWith(Configs) == InitFor(Configs, {DefaultCutterConfig})

\* the sequences of at most n elements of S
SeqsUpTo(S, n) == UNION {[1..m -> S] : m \in 0..n}

\* load_xml on a file holding the chat elements `chats`, in file order
LoadXml(Chats) ==
    /\ pc = "new"
    /\ \E chats \in SeqsUpTo(Chats, MaxChats) :
         /\ all_danmaku' = SortByVpos(chats)
         /\ ingested' = SortByVpos(chats)
         /\ office_ids' = CheckOfficeIds(SortByVpos(chats), config)
    /\ pc' = "loaded"
    /\ UNCHANGED <<config, aa_start_times, idx, danmaku_passageway,
                   danmaku_passageway_width, danmaku_passageway_speed,
                   danmaku_passageway_finish, office_lines, shita_lines, aa_lines,
                   normal_lines, outcome, assigned, result, first_result, calls>>
    /\ UNCHANGED <<jvars, dvars, rvars, cvars>>

\* convert_to_ass, lines 116-128: the locals of a call; the driver calls it
\* at most `limit` times on one converter
BeginConvert(limit) ==
    /\ pc \in {"loaded", "done"}
    /\ calls < limit
    /\ calls' = calls + 1
    /\ pc' = "converting"
    /\ idx' = 1
    /\ danmaku_passageway' = [i \in 1..config.limit_line_amount |-> RInt(0)]
    /\ danmaku_passageway_width' = [i \in 1..config.limit_line_amount |-> 0]
    /\ danmaku_passageway_speed' = [i \in 1..config.limit_line_amount |-> RInt(0)]
    /\ danmaku_passageway_finish' = [i \in 1..config.limit_line_amount |-> RInt(0)]
    /\ office_lines' = <<>>
    /\ shita_lines' = <<>>
    /\ aa_lines' = <<>>
    /\ normal_lines' = <<>>
    /\ outcome' = <<>>
    /\ assigned' = <<>>
    /\ UNCHANGED <<config, ingested, all_danmaku, office_ids, aa_start_times, result, first_result>>
    /\ UNCHANGED <<jvars, dvars, rvars, cvars>>

\* one iteration of the for loop, lines 130-183
ProcessDanmaku ==
    /\ pc = "converting"
    /\ idx <= Len(all_danmaku)
    /\ LET w     == WalkBody(1, all_danmaku[idx], config, office_ids)
           d     == w.d
           aa    == IF "aa" \in w.taken THEN ProcessAaDanmaku(d, idx) ELSE None
           n     == IF "normal" \in w.taken
                    THEN ProcessNormalDanmaku(d, idx, danmaku_passageway,
                             danmaku_passageway_width, danmaku_passageway_speed,
                             danmaku_passageway_finish, config)
                    ELSE [raised |-> FALSE, p |-> danmaku_passageway,
                          pw |-> danmaku_passageway_width, ps |-> danmaku_passageway_speed,
                          pf |-> danmaku_passageway_finish, line |-> None,
                          how |-> "none", lane |-> 0]
           mmss  == FormatTimeMmSs(VposSeconds(d))
       IN  /\ all_danmaku' = [all_danmaku EXCEPT ![idx] = d]
           /\ outcome' = Append(outcome, w.taken)
           /\ office_lines' = IF "office" \in w.taken
                              THEN AppendLine(office_lines, ProcessOfficeDanmaku(d, idx))
                              ELSE office_lines
           /\ aa_lines' = AppendLine(aa_lines, aa)
           /\ aa_start_times' =
                 IF aa # None /\ ~\E j \in 1..Len(aa_start_times) : aa_start_times[j] = mmss
                 THEN Append(aa_start_times, mmss) ELSE aa_start_times
           /\ shita_lines' = IF "shita" \in w.taken
                             THEN AppendLine(shita_lines, ProcessShitaDanmaku(d, idx))
                             ELSE shita_lines
           /\ normal_lines' = AppendLine(normal_lines, n.line)
           /\ danmaku_passageway' = n.p
           /\ danmaku_passageway_width' = n.pw
           /\ danmaku_passageway_speed' = n.ps
           /\ danmaku_passageway_finish' = n.pf
           /\ assigned' = IF n.line = None THEN assigned
                          ELSE Append(assigned,
                                   [src |-> idx, lane |-> n.lane, how |-> n.how,
                                    start |-> StartSeconds(d, config),
                                    width |-> TextWidth(d, config),
                                    speed |-> AverageSpeed(d, config)])
           /\ pc' = IF n.raised THEN "error" ELSE "converting"
           /\ idx' = IF n.raised THEN idx ELSE idx + 1
    /\ UNCHANGED <<config, ingested, office_ids, result, first_result, calls>>
    /\ UNCHANGED <<jvars, dvars, rvars, cvars>>

\* lines 185-205: the document is put together and returned
FinishConvert ==
    /\ pc = "converting"
    /\ idx > Len(all_danmaku)
    /\ pc' = "done"
    /\ result' = Document(config, office_lines, shita_lines, aa_lines, normal_lines)
    /\ first_result' = IF calls = 1
                       THEN Document(config, office_lines, shita_lines, aa_lines, normal_lines)
                       ELSE first_result
    /\ UNCHANGED <<config, ingested, all_danmaku, office_ids, aa_start_times, idx,
                   danmaku_passageway, danmaku_passageway_width,
                   danmaku_passageway_speed, danmaku_passageway_finish, office_lines,
                   shita_lines, aa_lines, normal_lines, outcome, assigned, calls>>
    /\ UNCHANGED <<jvars, dvars, rvars, cvars>>

----------------------------------------------------------------------------
(* json2xml.py: convert_json_to_xml *)

\* float(playtime_value) raises ValueError: the value is a string that is no number
PlaytimeRaises(playtime) == playtime.kind = "text"

\* quantize(Decimal('0'), rounding=ROUND_HALF_UP): halves go away from zero
RoundHalfUp(r) ==
    LET q == RFloor(RAdd([n |-> Abs(r.n), d |-> r.d], RNorm(1, 2)))
    IN  IF r.n < 0 THEN -q ELSE q

\* lines 30-35: vpos is 0 without a playtime, else the playtime in centiseconds
VposOfPlaytime(playtime) ==
    IF playtime.kind = "none" THEN 0
    ELSE RoundHalfUp(RMul(playtime.value, RInt(100)))

\* lines 38-48: date and date_usec are 0 without a time and for a time
\* strptime cannot parse (the ValueError is caught), else what it parsed
DateOfTime(time) ==
    IF time.kind = "parsed"
    THEN [date |-> time.seconds, date_usec |-> time.micros]
    ELSE [date |-> 0, date_usec |-> 0]

\* user_color_str.startswith("#"), for the colours of the model
StartsWithHash(color) == color \in {"#FF0000", "#FFFFFF"}

\* lines 52-70: user name, colour and text; the strings of the model hold
\* none of the characters xml_escape replaces
DataOfEvent(data) ==
    IF data.kind = "dict"
    THEN [user_name  |-> data.userName,
          user_color |-> IF StartsWithHash(data.color) THEN data.color ELSE "#FFFFFF",
          text       |-> IF Len(data.comment) > 0 THEN data.comment[1] ELSE ""]
    ELSE [user_name |-> "anonymous", user_color |-> "#FFFFFF", text |-> ""]

\* lines 27-83: the chat element written for a comment event
ChatElement(no, event) ==
    [no         |-> no,
     vpos       |-> VposOfPlaytime(event.playtime),
     date       |-> DateOfTime(event.time).date,
     mail       |-> "184",
     user_id    |-> "",
     user_name  |-> DataOfEvent(event.data).user_name,
     user_color |-> DataOfEvent(event.data).user_color,
     anonymity  |-> "1",
     date_usec  |-> DateOfTime(event.time).date_usec,
     text       |-> DataOfEvent(event.data).text]

\* lines 12-20: the JSON file is read and the XML file is opened
ConvertJsonToXml(Events) ==
    /\ json_pc = "idle"
    /\ comments_list' \in SeqsUpTo(Events, MaxEvents)
    /\ json_pc' = "writing"
    /\ xml_comment_number' = 0
    /\ xml_chats' = <<>>
    /\ UNCHANGED <<xvars, dvars, rvars, cvars>>

\* lines 23-83: one iteration of the loop over the comment events; the
\* ValueError of float() is not caught and ends the conversion
WriteChat ==
    /\ json_pc = "writing"
    /\ xml_comment_number < Len(comments_list)
    /\ xml_comment_number' = xml_comment_number + 1
    /\ LET event == comments_list[xml_comment_number + 1]
       IN  IF PlaytimeRaises(event.playtime)
           THEN json_pc' = "error" /\ xml_chats' = xml_chats
           ELSE /\ json_pc' = "writing"
                /\ xml_chats' = Append(xml_chats, ChatElement(xml_comment_number + 1, event))
    /\ UNCHANGED <<comments_list, xvars, dvars, rvars, cvars>>

\* lines 85-87: the packet is closed
ClosePacket ==
    /\ json_pc = "writing"
    /\ xml_comment_number = Len(comments_list)
    /\ json_pc' = "done"
    /\ UNCHANGED <<comments_list, xml_comment_number, xml_chats, xvars, dvars, rvars, cvars>>

----------------------------------------------------------------------------
(* comment_dl.py: download_comments *)

\* a comment of an archive list: a mapping with the keys playtime and time
Comment(playtime, time, data) == [playtime |-> playtime, time |-> time, data |-> data]

\* the values of the key playtime: an integer, a float of integral value, or
\* a string
IntValue(n) == [type |-> "int", val |-> n]
FloatValue(n) == [type |-> "float", val |-> n]
TextValue(t) == [type |-> "str", val |-> t]

\* str(): what an f-string makes of a value
Format(v) ==
    CASE v.type = "int"   -> ToString(v.val)
      [] v.type = "float" -> ToString(v.val) \o ".0"
      [] v.type = "str"   -> v.val

\* f"{comment.get('playtime', '')}_{comment.get('time', '')}"
CommentId(comment) == Format(comment.playtime) \o "_" \o comment.time

\* what the parser makes of the data received: an exception ("unparsable"),
\* a false value such as None or {} ("falsy"), a mapping ("object", with its
\* 'archive' list, empty when the key is absent), or a true value that is no
\* mapping, such as a non-empty list ("not_object")
Unparsable == [kind |-> "unparsable", archive |-> <<>>]
Falsy == [kind |-> "falsy", archive |-> <<>>]
NotObject == [kind |-> "not_object", archive |-> <<>>]
Object(archive) == [kind |-> "object", archive |-> archive]

RECURSIVE Deduplicate_ForgetsIds(_, _, _, _, _)
\* faulty variant: the id of an appended comment is not remembered
Deduplicate_ForgetsIds(batch, n, seen, all, new_count) ==
    IF n > Len(batch) THEN [seen |-> seen, all |-> all, new_count |-> new_count]
    ELSE IF CommentId(batch[n]) \notin seen
         THEN Deduplicate_ForgetsIds(batch, n + 1, seen, Append(all, batch[n]), new_count + 1)
         ELSE Deduplicate_ForgetsIds(batch, n + 1, seen, all, new_count)

RECURSIVE Deduplicate(_, _, _, _, _)
\* lines 56-63: the loop over comments_batch from position n on
Deduplicate(batch, n, seen, all, new_count) ==
    IF n > Len(batch) THEN [seen |-> seen, all |-> all, new_count |-> new_count]
    ELSE IF CommentId(batch[n]) \notin seen
         THEN Deduplicate(batch, n + 1, seen \cup {CommentId(batch[n])},
                          Append(all, batch[n]), new_count + 1)
         ELSE Deduplicate(batch, n + 1, seen, all, new_count)

\* lines 38-75: what one iteration does with the data received
HandleResponse(data, empty, seen, all) ==
    LET same == [raised |-> FALSE, empty_count |-> empty, seen |-> seen, all |-> all]
    IN  CASE data.kind = "unparsable" -> [same EXCEPT !.empty_count = empty + 1]
          [] data.kind = "not_object" -> [same EXCEPT !.raised = TRUE]
          [] data.kind = "falsy"      -> [same EXCEPT !.empty_count = empty + 1]
          [] data.kind = "object"     ->
                IF data.archive = <<>> THEN [same EXCEPT !.empty_count = empty + 1]
                ELSE LET r == Deduplicate(data.archive, 1, seen, all, 0)
                     IN  [raised      |-> FALSE,
                          empty_count |-> IF r.new_count > 0 THEN 0 ELSE empty + 1,
                          seen        |-> r.seen,
                          all         |-> r.all]

\* the order of the strings used as playtime
TextRank(t) == CASE t = "1" -> 1 [] t = "2" -> 2

\* a <= b for two playtime values of comparable types
PlaytimeLe(a, b) ==
    IF a.type = "str" THEN TextRank(a.val) <= TextRank(b.val) ELSE a.val <= b.val

\* the comparison of a string with a number, which raises TypeError
SortRaises(seq) ==
    \E m, n \in 1..Len(seq) : seq[m].playtime.type = "str" /\ seq[n].playtime.type # "str"

RECURSIVE InsertByPlaytime(_, _)
InsertByPlaytime(sorted, c) ==
    IF sorted = <<>> THEN <<c>>
    ELSE IF PlaytimeLe(sorted[Len(sorted)].playtime, c.playtime) THEN Append(sorted, c)
    ELSE Append(InsertByPlaytime(SubSeq(sorted, 1, Len(sorted) - 1), c), sorted[Len(sorted)])

RECURSIVE SortByPlaytime(_)
\* sorted(all_comments, key=lambda x: x.get('playtime', 0)): a stable sort
SortByPlaytime(seq) ==
    IF seq = <<>> THEN <<>>
    ELSE InsertByPlaytime(SortByPlaytime(SubSeq(seq, 1, Len(seq) - 1)), seq[Len(seq)])

\* lines 15-25: the connection is opened, the first message is received and
\* ignored; the connection then stays open and answers every request
Connect ==
    /\ dl_pc = "idle"
    /\ dl_pc' = IF max_requests > 0 THEN "loop" ELSE "saving"
    /\ dl_i' = 0
    /\ empty_count' = 0
    /\ seen_comment_ids' = {}
    /\ all_comments' = <<>>
    /\ UNCHANGED <<responses, saved_file, occurred>>
    /\ UNCHANGED <<xvars, jvars, rvars, cvars>>

RECURSIVE FirstOccurrences(_, _, _)
\* the comments seen so far, with those of batch[n..] added where not yet there
FirstOccurrences(seen, batch, n) ==
    IF n > Len(batch) THEN seen
    ELSE IF \E m \in 1..Len(seen) : seen[m] = batch[n]
         THEN FirstOccurrences(seen, batch, n + 1)
         ELSE FirstOccurrences(Append(seen, batch[n]), batch, n + 1)

\* lines 27-77: one iteration of the request loop, for the data received
\* being any of Responses
Request(Responses) ==
    /\ dl_pc = "loop"
    /\ \E data \in Responses :
         LET h == HandleResponse(data, empty_count, seen_comment_ids, all_comments)
             fresh == \E n \in 1..Len(data.archive) :
                          CommentId(data.archive[n]) \notin seen_comment_ids
         IN  /\ responses' = Append(responses, [kind |-> data.kind, fresh |-> fresh])
             /\ occurred' = FirstOccurrences(occurred, data.archive, 1)
             /\ empty_count' = h.empty_count
             /\ seen_comment_ids' = h.seen
             /\ all_comments' = h.all
             /\ dl_pc' = IF h.raised THEN "error"
                         ELSE IF h.empty_count >= stop_after_empty THEN "saving"
                         ELSE IF dl_i + 1 >= max_requests THEN "saving"
                         ELSE "loop"
             /\ dl_i' = IF dl_pc' = "loop" THEN dl_i + 1 ELSE dl_i
    /\ UNCHANGED saved_file
    /\ UNCHANGED <<xvars, jvars, rvars, cvars>>

\* lines 80-89: the comments are sorted by playtime and written to the file;
\* the TypeError of sorted() is not caught, and no file is written
Save ==
    /\ dl_pc = "saving"
    /\ dl_pc' = IF SortRaises(all_comments) THEN "save_error" ELSE "done"
    /\ saved_file' = IF all_comments # <<>> /\ ~SortRaises(all_comments)
                      THEN SortByPlaytime(all_comments) ELSE saved_file
    /\ UNCHANGED <<dl_i, empty_count, seen_comment_ids, all_comments, responses, occurred>>
    /\ UNCHANGED <<xvars, jvars, rvars, cvars>>

----------------------------------------------------------------------------
(* Inputs *)

\* Config(): the defaults of lines 18-29
DefaultConfig ==
    [limit_line_amount    |-> 11,
     danmaku_size         |-> 46,
     danmaku_density      |-> 10,
     start_time_adjust    |-> RInt(0),
     danmaku_speed_adjust |-> RInt(1),
     use_ass_colors       |-> TRUE,
     difficult_vip        |-> FALSE,
     filter_outsider      |-> FALSE,
     use_speed_a          |-> FALSE,
     manual_add_office_id |-> {},
     filter_keywords      |-> {}]

\* a chat element of the XML file, as load_xml reads it
Chat(user, premium, mail, vpos, date, text) ==
    [text |-> text, vpos |-> vpos, user_id |-> user, premium |-> premium,
     mail |-> mail, date |-> date, date_usec |-> 0]

TEXT_A == <<"a">>
TEXT_5 == <<"a4", "a">>
TEXT_13 == <<"a8", "a4", "a">>
TEXT_69 == <<"a64", "a4", "a">>
TEXT_70 == <<"a64", "a4", "a", "a">>
TEXT_10 == <<"a8", "a", "a">>
TEXT_12 == <<"a8", "a4">>
TEXT_28 == <<"a8", "a8", "a8", "a4">>
TEXT_29 == <<"a8", "a8", "a8", "a4", "a">>
TEXT_32 == <<"a8", "a8", "a8", "a8">>
MAIL_SHITA == <<"shita">>

\* configurations of the classification runs: two lanes, the operator id u2
\* given by hand or not, the membership filter on or off
ClassConfigs ==
    {[DefaultConfig EXCEPT !.limit_line_amount = 2,
                           !.filter_keywords = {"kw", ""},
                           !.manual_add_office_id = ids,
                           !.filter_outsider = fo] :
        ids \in {{}, {"u2"}}, fo \in BOOLEAN}

\* chat elements of the classification runs
ClassChats ==
    {Chat("u1", "0", <<>>, 5, 1, t) :
        t \in {TEXT_A, <<>>, <<"/", "a">>, TEXT_69, TEXT_70, <<"/">> \o TEXT_69}}
    \cup {Chat("u1", "0", MAIL_SHITA, 5, 1, t) : t \in {<<"/", "a">>, TEXT_69, TEXT_70}}
    \cup {Chat("u2", "0", <<>>, 5, 1, t) : t \in {TEXT_A, NG_TEXT, <<"kw", "a">>}}
    \cup {Chat("u2", "0", MAIL_SHITA, 5, 1, TEXT_70), Chat("u2", "0", <<>>, -1, 1, TEXT_A)}
    \cup {Chat("u1", "25", m, 5, 1, TEXT_A) : m \in {<<>>, MAIL_SHITA}}
    \cup {Chat("u1", "2", <<>>, 5, 1, t) : t \in {TEXT_A, <<"/vote">>, <<"a", "/info">>}}

\* configurations of the scheduling runs: zero to two lanes, the speed
\* heuristic on or off, and one configuration whose base speed is zero
SchedConfigs ==
    {[DefaultConfig EXCEPT !.limit_line_amount = n, !.use_speed_a = h] :
        n \in 0..2, h \in BOOLEAN}
    \cup {[DefaultConfig EXCEPT !.limit_line_amount = 1,
                                !.danmaku_speed_adjust = RInt(-6)]}

\* chat elements of the scheduling runs: ordinary comments of 1, 5 and 13
\* characters at 0 s, 0.01 s, 1 s and 2 s
SchedChats ==
    {Chat("u1", "0", <<>>, v, 1, t) : v \in {0, 1, 100, 200}, t \in {TEXT_A, TEXT_5, TEXT_13}}

\* configurations of the catch-up runs: one lane with a density that puts the
\* second comment exactly at, or just past, the gap boundary; two lanes with
\* the speed heuristic and a speed adjustment of -2.8 s or -3 s
CatchConfigs ==
    {[DefaultConfig EXCEPT !.limit_line_amount = 1, !.danmaku_density = dd] : dd \in {32, 33}}
    \cup {[DefaultConfig EXCEPT !.limit_line_amount = 2, !.use_speed_a = TRUE,
                                !.danmaku_speed_adjust = a] : a \in {RNorm(-14, 5), RInt(-3)}}

\* chat elements of the catch-up runs: 28 characters at 1 s and 29 at 4.5 s;
\* 10 and 12 characters at 1 s, 32 and 13 at 2 s; a bottom comment at 2 s
CatchChats ==
    {Chat("u1", "0", <<>>, 100, 1, t) : t \in {TEXT_28, TEXT_10, TEXT_12}}
    \cup {Chat("u1", "0", <<>>, 450, 1, TEXT_29)}
    \cup {Chat("u1", "0", <<>>, 200, 1, t) : t \in {TEXT_32, TEXT_13}}
    \cup {Chat("u1", "0", MAIL_SHITA, 200, 1, TEXT_A)}

\* comments of the download runs: two with the same playtime and time, and
\* the same playtime written as a float and as a string
DlComments ==
    {Comment(IntValue(1), "t1", "x"), Comment(IntValue(1), "t1", "y"),
     Comment(FloatValue(1), "t1", "x"), Comment(TextValue("1"), "t1", "x")}

\* the data a request can be answered with
DlResponses ==
    {Unparsable, Falsy, NotObject} \cup {Object(a) : a \in SeqsUpTo(DlComments, MaxBatch)}

\* configurations of the timestamp runs
TimeConfigs ==
    {[DefaultConfig EXCEPT !.limit_line_amount = 2, !.manual_add_office_id = ids] :
        ids \in {{}, {"u2"}}}

\* chat elements of the timestamp runs: with and without raw timestamps
TimeChats ==
    {[Chat(u, pr, <<>>, 5, dt[1], TEXT_A) EXCEPT !.date_usec = dt[2]] :
        u \in {"u1", "u2"}, pr \in {"0", "2"}, dt \in {<<0, 0>>, <<1, 0>>, <<0, 1>>}}
    \cup {Chat("u1", "2", <<>>, 5, 0, <<"a", "/info">>), Chat("u1", "2", <<>>, 0, 0, TEXT_A)}

\* configurations of the membership runs: the operator id u2 given by hand,
\* the membership filter on or off
FilterConfigs ==
    {[DefaultConfig EXCEPT !.limit_line_amount = 2,
                           !.manual_add_office_id = {"u2"},
                           !.filter_outsider = fo] : fo \in BOOLEAN}

\* chat elements of the membership runs: an ordinary, a bottom-marked, a long
\* and a command text and an operator's text, each of a member (premium 0)
\* and of a non-member (premium 25)
FilterChats ==
    UNION {{Chat("u1", pr, <<>>, 5, 1, TEXT_A),
            Chat("u1", pr, MAIL_SHITA, 5, 1, TEXT_A),
            Chat("u1", pr, <<>>, 5, 1, TEXT_70),
            Chat("u1", pr, <<>>, 5, 1, <<"/", "a">>),
            Chat("u2", pr, <<>>, 5, 1, TEXT_A)} : pr \in {"0", "25"}}

\* configurations of the time offset runs: the operator id u2 given by hand,
\* start_time_adjust 0.0 or 1.0
OffsetConfigs ==
    {[DefaultConfig EXCEPT !.limit_line_amount = 2,
                           !.manual_add_office_id = {"u2"},
                           !.start_time_adjust = RInt(off)] : off \in {0, 1}}

\* chat elements of the time offset runs: ordinary comments at 0.02 s, 0.05 s
\* and 1 s, and a bottom-marked, a long and an operator's comment at 0.02 s
OffsetChats ==
    {Chat("u1", "0", <<>>, v, 1, TEXT_A) : v \in {2, 5, 100}}
    \cup {Chat("u1", "0", MAIL_SHITA, 2, 1, TEXT_A),
          Chat("u1", "0", <<>>, 2, 1, TEXT_70),
          Chat("u2", "0", <<>>, 2, 1, TEXT_A)}

\* configurations of the colour runs: use_ass_colors on or off
ColorConfigs ==
    {[DefaultConfig EXCEPT !.limit_line_amount = 2, !.use_ass_colors = uc] :
        uc \in BOOLEAN}

\* chat elements of the colour runs: ordinary, bottom-marked and long
\* comments whose mail attribute names no colour, a colour by name, by hex
\* code or both, or holds a part of seven characters that begins with '#'
\* and is no hex code
ColorChats ==
    {Chat("u1", "0", m, 5, 1, TEXT_A) :
        m \in {<<>>, <<"184">>, <<"red">>, <<"red2">>, <<"#FF8000">>,
               <<"#FF8000", "red">>, <<"red", "#FF8000">>, <<"#zzzzzz">>}}
    \cup {Chat("u1", "0", MAIL_SHITA \o m, 5, 1, TEXT_A) :
            m \in {<<>>, <<"red">>, <<"red", "#FF8000">>, <<"#zzzzzz">>}}
    \cup {Chat("u1", "0", m, 5, 1, TEXT_70) :
            m \in {<<>>, <<"red">>, <<"#FF8000", "red">>}}

\* comment events of the JSON runs: playtime absent, 0.05, 1.005 or a string
\* that is no number; time absent, parsable or not; data a dictionary or not
JsonEvents ==
    {[playtime |-> pt, time |-> tm, data |-> da] :
        pt \in {[kind |-> "none"],
                [kind |-> "number", value |-> RNorm(5, 100)],
                [kind |-> "number", value |-> RNorm(1005, 1000)],
                [kind |-> "text"]},
        tm \in {[kind |-> "none"],
                [kind |-> "parsed", seconds |-> 1, micros |-> 5],
                [kind |-> "unparsable"]},
        da \in {[kind |-> "dict", userName |-> "n", color |-> "red", comment |-> <<"c1">>],
                [kind |-> "other"]}}

----------------------------------------------------------------------------
(* Specifications *)

Init == InitWith(ClassConfigs)

Next ==
    \/ LoadXml(ClassChats)
    \/ BeginConvert(1)
    \/ ProcessDanmaku
    \/ FinishConvert

\* classification runs: one conversion of a loaded file
Spec == Init /\ [][Next]_vars

InitSched == InitWith(SchedConfigs)

NextSched ==
    \/ LoadXml(SchedChats)
    \/ BeginConvert(1)
    \/ ProcessDanmaku
    \/ FinishConvert

\* scheduling runs: one conversion of a file of ordinary comments
SpecSched == InitSched /\ [][NextSched]_vars

InitTime == InitWith(TimeConfigs)

NextTime ==
    \/ LoadXml(TimeChats)
    \/ BeginConvert(MaxCalls)
    \/ ProcessDanmaku
    \/ FinishConvert

\* timestamp runs: repeated conversions of a file of operator and ordinary comments
SpecTime == InitTime /\ [][NextTime]_vars

InitFilter == InitWith(FilterConfigs)

NextFilter ==
    \/ LoadXml(FilterChats)
    \/ BeginConvert(1)
    \/ ProcessDanmaku
    \/ FinishConvert

\* membership runs: one conversion of a file of members' and non-members' comments
SpecFilter == InitFilter /\ [][NextFilter]_vars

InitOffset == InitWith(OffsetConfigs)

NextOffset ==
    \/ LoadXml(OffsetChats)
    \/ BeginConvert(1)
    \/ ProcessDanmaku
    \/ FinishConvert

\* time offset runs: one conversion of a file under a time offset
SpecOffset == InitOffset /\ [][NextOffset]_vars

InitColor == InitWith(ColorConfigs)

NextColor ==
    \/ LoadXml(ColorChats)
    \/ BeginConvert(1)
    \/ ProcessDanmaku
    \/ FinishConvert

\* colour runs: one conversion of a file of comments with colour hints
SpecColor == InitColor /\ [][NextColor]_vars

InitCatch == InitWith(CatchConfigs)

NextCatch ==
    \/ LoadXml(CatchChats)
    \/ BeginConvert(1)
    \/ ProcessDanmaku
    \/ FinishConvert

SpecCatch == InitCatch /\ [][NextCatch]_vars

InitJson == InitWith({DefaultConfig})

NextJson ==
    \/ ConvertJsonToXml(JsonEvents)
    \/ WriteChat
    \/ ClosePacket

\* JSON runs: one conversion of a JSON file of comment events
SpecJson == InitJson /\ [][NextJson]_vars

InitDl == InitWith({DefaultConfig})

NextDl ==
    \/ Connect
    \/ Request(DlResponses)
    \/ Save

\* download runs: one call of download_comments
SpecDl == InitDl /\ [][NextDl]_vars

\* download runs in which the loop is not suspended for ever
SpecDlFair == SpecDl /\ WF_vars(NextDl)

----------------------------------------------------------------------------
(* Claims about the lane scheduler, checked under SpecSched *)

RMin(a, b) == IF RLt(a, b) THEN a ELSE b

\* the instant at which the trailing edge of an assigned comment leaves the screen
ExitTime(c) == RAdd(c.start, RDiv(RInt(VIDEO_WIDTH + c.width), c.speed))

\* leading edge of the later comment b minus trailing edge of the earlier
\* comment a at instant t:
\* (W - vb * (t - sb)) - (W - va * (t - sa) + widtha)
EdgeGap(a, b, t) ==
    RSub(RSub(RMul(a.speed, RSub(t, a.start)), RInt(a.width)),
         RMul(b.speed, RSub(t, b.start)))

\* the gap is linear in t, so it is non-negative on the whole interval in
\* which both comments are on screen iff it is at both ends of the interval
PairNeverOverlaps(a, b) ==
    LET t1 == b.start
        t2 == RMin(ExitTime(a), ExitTime(b))
    IN  RLt(t1, t2) => /\ RGe(EdgeGap(a, b, t1), RInt(0))
                       /\ RGe(EdgeGap(a, b, t2), RInt(0))

\* C1: no two Normal directives of one lane overlap on screen: while both are
\* at least partly inside the screen the later comment's leading edge is not
\* left of the earlier comment's trailing edge.
C1_NoOverlap ==
    \A i, j \in 1..Len(assigned) :
        (/\ i < j
         /\ assigned[i].lane = assigned[j].lane
         /\ RGt(assigned[i].speed, RInt(0))
         /\ RGt(assigned[j].speed, RInt(0)))
        => PairNeverOverlaps(assigned[i], assigned[j])

\* the acceptance rule of the specification for an occupant o and a newcomer c
AcceptanceRule(o, c, density) ==
    LET elapsed == RSub(c.start, o.start)
        gap     == RAdd(RMul(elapsed, o.speed), RInt(density))
    IN  /\ RGe(gap, RInt(o.width))
        /\ \/ o.width >= c.width
           \/ /\ RGt(c.speed, o.speed)
              /\ RLt(RSub(RDiv(RInt(VIDEO_WIDTH), o.speed), elapsed),
                     RDiv(RSub(gap, RInt(o.width)), RSub(c.speed, o.speed)))

\* C2: whenever a Normal comment is assigned a lane that already received a
\* comment in this run, the most recent earlier occupant of the lane and the
\* new comment satisfy the gap / catch-up acceptance rule.
C2_AcceptanceAtAssignment ==
    \A i, j \in 1..Len(assigned) :
        (/\ i < j
         /\ assigned[i].lane = assigned[j].lane
         /\ ~\E k \in (i + 1)..(j - 1) : assigned[k].lane = assigned[i].lane)
        => AcceptanceRule(assigned[i], assigned[j], config.danmaku_density)

\* C3: one lane, no offset, two Normal comments of equal width at 0 s and
\* 1 s: the second is dropped if 1 * occupantSpeed + density < width and is
\* accepted into lane 0 otherwise.
C3_CapacityDrop ==
    (/\ pc = "done"
     /\ config.limit_line_amount = 1
     /\ RIsZero(config.start_time_adjust)
     /\ Len(ingested) = 2
     /\ outcome = <<{"normal"}, {"normal"}>>
     /\ ingested[1].vpos = 0
     /\ ingested[2].vpos = 100
     /\ TextWidth(ingested[1], config) = TextWidth(ingested[2], config))
    => IF RLt(RAdd(AverageSpeed(ingested[1], config), RInt(config.danmaku_density)),
              RInt(TextWidth(ingested[2], config)))
       THEN ~\E n \in 1..Len(normal_lines) : normal_lines[n].src = 2
       ELSE \E n \in 1..Len(assigned) : assigned[n].src = 2 /\ assigned[n].lane = 1

\* C9: convert_to_ass never ends in an error, whatever the configuration.
C9_NoError == pc # "error"

RECURSIVE ScheduleFrom(_, _, _, _, _, _, _)
\* the lanes given to the comments seq[k..], in order: 0 when no lane took
\* the comment, -1 when the call raised
ScheduleFrom(k, seq, cfg, p, pw, ps, pf) ==
    IF k > Len(seq) THEN <<>>
    ELSE LET r == ProcessNormalDanmaku(seq[k], k, p, pw, ps, pf, cfg)
         IN  <<IF r.raised THEN -1 ELSE r.lane>>
             \o ScheduleFrom(k + 1, seq, cfg, r.p, r.pw, r.ps, r.pf)

\* the lane given to chat element c of a file holding the elements `chats`
\* (all different), processed in the order load_xml leaves them in
LaneOf(cfg, chats, c) ==
    LET sorted == SortByVpos(chats)
        lanes  == ScheduleFrom(1, sorted, cfg,
                      [i \in 1..cfg.limit_line_amount |-> RInt(0)],
                      [i \in 1..cfg.limit_line_amount |-> 0],
                      [i \in 1..cfg.limit_line_amount |-> RInt(0)],
                      [i \in 1..cfg.limit_line_amount |-> RInt(0)])
    IN  lanes[CHOOSE n \in 1..Len(sorted) : sorted[n] = c]

\* C8: scheduling is sensitive to the order of ties: there are a
\* configuration and two comments of equal appearTime and different widths
\* whose two file orders give a comment a different lane, or drop a different
\* comment.  Shown for every configuration a converter is constructed with
\* that has a lane and raises for no comment.
C8_OrderSensitive ==
    (/\ pc = "new"
     /\ config.limit_line_amount >= 1
     /\ \A c \in SchedChats : ~SpeedRaises(c, config))
    => \E a, b \in SchedChats :
          /\ a.vpos = b.vpos
          /\ TextWidth(a, config) # TextWidth(b, config)
          /\ \A c \in {a, b} : /\ LaneOf(config, <<a, b>>, c) >= 0
                               /\ LaneOf(config, <<b, a>>, c) >= 0
          /\ \E c \in {a, b} : LaneOf(config, <<a, b>>, c) # LaneOf(config, <<b, a>>, c)

\* a finished run on two tied comments of different widths in which the
\* second one in file order got another lane than the first, or none
C8_Witness ==
    /\ pc = "done"
    /\ Len(ingested) = 2
    /\ outcome = <<{"normal"}, {"normal"}>>
    /\ ingested[1].vpos = ingested[2].vpos
    /\ TextWidth(ingested[1], config) # TextWidth(ingested[2], config)
    /\ \E n \in 1..Len(assigned) : assigned[n].src = 1
    /\ \A n, m \in 1..Len(assigned) : n # m => assigned[n].lane # assigned[m].lane

----------------------------------------------------------------------------
(* Claims about repeated conversion and timestamps, checked under SpecTime *)

\* C4: a second convert_to_ass on the same loaded converter returns exactly
\* the document the first call returned.
C4_SecondCallSame == (pc = "done" /\ calls >= 2) => result = first_result

\* C6: every comment classified Office whose raw timestamp fields are both
\* zero has its appearTime multiplied by 100 before its directive is made.
C6_OfficeRescaled ==
    \A k \in 1..Len(outcome) :
        (/\ calls = 1
         /\ outcome[k] = {"office"}
         /\ ingested[k].date = 0
         /\ ingested[k].date_usec = 0)
        => /\ all_danmaku[k].vpos = 100 * ingested[k].vpos
           /\ \A n \in 1..Len(office_lines) :
                  office_lines[n].src = k
                  => office_lines[n].start = FormatTime(RInt(ingested[k].vpos))

----------------------------------------------------------------------------
(* Claims about the classifier, checked under Spec *)

\* the comment indices with a line in a block
SourcesOf(lines) == {lines[n].src : n \in 1..Len(lines)}

\* the output block a test of the loop body writes to, if any
BlockOf(b) ==
    CASE b = "office" -> office_lines
      [] b = "aa"     -> aa_lines
      [] b = "shita"  -> shita_lines
      [] b = "normal" -> normal_lines
      [] OTHER        -> <<>>

\* C5: every comment the loop has reached is handled by exactly one of the
\* outcomes Dropped, Office, Shita, AA and Normal, its lines are in no block
\* but that of its outcome, and a finished conversion has left no comment
\* unclassified.
C5_Partition ==
    /\ pc = "converting" => Len(outcome) = idx - 1
    /\ pc = "done" => Len(outcome) = Len(all_danmaku)
    /\ \A k \in 1..Len(outcome) :
          /\ Cardinality(outcome[k]) = 1
          /\ \A b \in {"office", "aa", "shita", "normal"} :
                 k \in SourcesOf(BlockOf(b)) => outcome[k] = {b}
    /\ \A b \in {"office", "aa", "shita", "normal"} :
          SourcesOf(BlockOf(b)) \subseteq 1..Len(outcome)

\* a finished conversion of two comments, rendered into two different blocks
C5_Witness ==
    /\ pc = "done"
    /\ Len(all_danmaku) = 2
    /\ office_lines # <<>>
    /\ aa_lines # <<>>

\* rule 1 of the classifier, from the fields of the comment
PassesDropChecks(d, cfg) ==
    /\ d.text # <<>>
    /\ d.text # NG_TEXT
    /\ d.vpos >= 0
    /\ ~\E kw \in cfg.filter_keywords \ {""} : Contains(d.text, kw)

\* C7: a comment that passes the drop checks and is not an operator's is
\* handled as AA when its text has 70 characters or more and is not handled
\* as AA when it has 69 (or fewer).
C7_AaThreshold ==
    \A k \in 1..Len(outcome) :
        (PassesDropChecks(ingested[k], config) /\ ingested[k].user_id \notin office_ids)
        => /\ TextLen(ingested[k].text) >= 70 => outcome[k] = {"aa"}
           /\ TextLen(ingested[k].text) <= 69 => "aa" \notin outcome[k]

\* a run that has classified a comment of exactly 70 characters and one of
\* exactly 69, neither of them an operator's
C7_Witness ==
    \E k, m \in 1..Len(outcome) :
        /\ PassesDropChecks(ingested[k], config) /\ ingested[k].user_id \notin office_ids
        /\ PassesDropChecks(ingested[m], config) /\ ingested[m].user_id \notin office_ids
        /\ TextLen(ingested[k].text) = 70 /\ outcome[k] = {"aa"}
        /\ TextLen(ingested[m].text) = 69 /\ outcome[m] # {"aa"}

\* C10: first match wins: a comment failing a drop check is dropped even if
\* its sender is an operator; otherwise an operator's comment is Office even
\* if it is long or bottom-marked; otherwise a comment of 70 characters or
\* more is AA even if bottom-marked; otherwise a bottom-marked comment is
\* Shita even if its text begins with '/'.
C10_Precedence ==
    \A k \in 1..Len(outcome) :
        LET d  == ingested[k]
            op == d.user_id \in office_ids
        IN  IF ~PassesDropChecks(d, config)
            THEN /\ \A b \in outcome[k] : CategoryOf(b) = "Dropped"
                 /\ \A b \in {"office", "aa", "shita", "normal"} :
                        k \notin SourcesOf(BlockOf(b))
            ELSE IF op THEN outcome[k] = {"office"}
            ELSE IF TextLen(d.text) >= 70 THEN outcome[k] = {"aa"}
            ELSE MailHas(d.mail, "shita") => outcome[k] = {"shita"}

\* a run in which an operator's bottom-marked comment of 70 characters was
\* handled as Office and a bottom-marked comment beginning with '/' as Shita
C10_Witness ==
    \E k, m \in 1..Len(outcome) :
        /\ ingested[k].user_id \in office_ids
        /\ TextLen(ingested[k].text) >= 70
        /\ MailHas(ingested[k].mail, "shita")
        /\ outcome[k] = {"office"}
        /\ ingested[m].user_id \notin office_ids
        /\ StartsWithSlash(ingested[m].text)
        /\ outcome[m] = {"shita"}

\* the number of entries of a block that come from comment k
LinesOf(lines, k) == Cardinality({n \in 1..Len(lines) : lines[n].src = k})

\* the texts for which the operator renderer returns no line
OfficeSkips(d) == \E x \in OFFICE_SKIPPED : Contains(d.text, x)

\* C11 (as stated): every comment handled as Office, Shita or AA has at
\* least one directive in its block; only Dropped comments and Normal
\* comments that no lane accepted have none.
C11_ClassifiedRendered ==
    \A k \in 1..Len(outcome) :
        \A b \in {"office", "shita", "aa"} :
            outcome[k] = {b} => k \in SourcesOf(BlockOf(b))

\* C11 (amended): a Shita comment always has its directive; an Office
\* comment has its directive unless its text contains one of the skipped
\* command words, an AA comment unless its text begins with '/'; those
\* Office and AA comments have no directive at all, and the directives
\* present are in the returned document.
C11_RenderedUnlessSkipped ==
    \A k \in 1..Len(outcome) :
        LET d == ingested[k]
        IN  /\ outcome[k] = {"shita"} => LinesOf(shita_lines, k) = 1
            /\ outcome[k] = {"office"} =>
                   LinesOf(office_lines, k) = (IF OfficeSkips(d) THEN 0 ELSE 1)
            /\ outcome[k] = {"aa"} =>
                   LinesOf(aa_lines, k) = (IF StartsWithSlash(d.text) THEN 0 ELSE 1)
            /\ pc = "done" =>
                   \A b \in {"office", "shita", "aa"} :
                       \A n \in 1..Len(BlockOf(b)) :
                           \E m \in 1..Len(result.lines) : result.lines[m] = BlockOf(b)[n]

\* a finished conversion in which a long text beginning with '/' was handled
\* as AA and left no directive, and a bottom-marked text beginning with '/'
\* was handled as Shita and has its directive in the document
C11_Witness ==
    /\ pc = "done"
    /\ \E k, m \in 1..Len(outcome) :
          /\ outcome[k] = {"aa"}
          /\ StartsWithSlash(ingested[k].text)
          /\ LinesOf(aa_lines, k) = 0
          /\ outcome[m] = {"shita"}
          /\ StartsWithSlash(ingested[m].text)
          /\ \E n \in 1..Len(result.lines) :
                 result.lines[n].style = "Shita" /\ result.lines[n].src = m

\* a text that is a system command: it begins with one of the command words
IsSystemCommand(t) == t # <<>> /\ Head(t) \in OFFICE_ID_EXCLUDED

\* a text that holds one of the command words anywhere
HoldsCommandWord(t) == \E x \in OFFICE_ID_EXCLUDED : Contains(t, x)

\* the senders of the tier-2 comments of the loaded file whose text is not a
\* system command
Tier2SendersNotCommand ==
    {ingested[i].user_id : i \in {j \in 1..Len(ingested) :
          ingested[j].premium = "2" /\ ~IsSystemCommand(ingested[j].text)}}

\* the senders of the tier-2 comments of the loaded file whose text holds no
\* command word
Tier2SendersNoWord ==
    {ingested[i].user_id : i \in {j \in 1..Len(ingested) :
          ingested[j].premium = "2" /\ ~HoldsCommandWord(ingested[j].text)}}

\* every comment the loop has reached that passes the drop checks and whose
\* sender is in `ids` was handled as Office, wherever it stands in the file
OfficeWhereverItStands(ids) ==
    \A k \in 1..Len(outcome) :
        (PassesDropChecks(ingested[k], config) /\ ingested[k].user_id \in ids)
        => outcome[k] = {"office"}

\* C12 (as stated): from load_xml on the operator-ID set is manualOfficeIds
\* united with the senders of all tier-2 comments whose text is not a system
\* command, and every non-dropped comment of such a sender is Office.
C12_OperatorIds ==
    pc # "new" =>
        /\ office_ids = config.manual_add_office_id \cup Tier2SendersNotCommand
        /\ OfficeWhereverItStands(config.manual_add_office_id
                                      \cup Tier2SendersNotCommand)

\* C12 (amended): from load_xml on the operator-ID set is manualOfficeIds
\* united with the senders of all tier-2 comments whose text holds none of
\* the six command words anywhere, and every non-dropped comment of such a
\* sender is Office, also when it stands before the sender's tier-2 comment.
C12_OperatorIdsByContainment ==
    pc # "new" =>
        /\ office_ids = config.manual_add_office_id \cup Tier2SendersNoWord
        /\ OfficeWhereverItStands(config.manual_add_office_id
                                      \cup Tier2SendersNoWord)

\* a run without manual ids in which the first comment, not of tier 2, was
\* handled as Office because of its sender's tier-2 comment further down
C12_Witness ==
    /\ config.manual_add_office_id = {}
    /\ Len(ingested) = 2
    /\ Len(outcome) >= 1
    /\ ingested[1].premium # "2"
    /\ ingested[2].premium = "2"
    /\ ingested[2].user_id = ingested[1].user_id
    /\ outcome[1] = {"office"}

\* C13: the start times passed to the lane scheduler during one
\* convert_to_ass run are non-decreasing.  The comments passed to the
\* scheduler are those the loop handled as "normal"; all_danmaku holds each
\* of them as the loop passed it on.
C13_SchedulerOrder ==
    \A i, j \in 1..Len(outcome) :
        (i < j /\ outcome[i] = {"normal"} /\ outcome[j] = {"normal"})
        => ~RLt(StartSeconds(all_danmaku[j], config), StartSeconds(all_danmaku[i], config))

\* the place of a directive's category in the document
StyleRank(style) ==
    CASE style = "Office"  -> 1
      [] style = "Shita"   -> 2
      [] style = "AA"      -> 3
      [] style = "Danmaku" -> 4

\* the positions of the directives of a document (the other lines are the
\* marker comments that wrap a block)
DirectivesOf(doc) == {n \in 1..Len(doc.lines) : doc.lines[n].style # "Comment"}

\* C14: in the returned document every Office directive precedes every Shita
\* directive, every Shita directive every AA directive and every AA
\* directive every Normal directive; the Normal directives stand in the order
\* in which their comments were processed.
C14_BlockOrder ==
    pc = "done" =>
        \A i, j \in DirectivesOf(result) :
            i < j =>
                /\ StyleRank(result.lines[i].style) <= StyleRank(result.lines[j].style)
                /\ (result.lines[i].style = "Danmaku" /\ result.lines[j].style = "Danmaku")
                       => result.lines[i].src < result.lines[j].src

\* a returned document that holds a Shita directive and an AA directive, the
\* AA comment being the earlier one in the file
C14_Witness ==
    /\ pc = "done"
    /\ \E i, j \in DirectivesOf(result) :
          /\ result.lines[i].style = "Shita"
          /\ result.lines[j].style = "AA"
          /\ result.lines[j].src < result.lines[i].src

----------------------------------------------------------------------------
(* Claims about the membership filter, checked under SpecFilter *)

\* the tests that handle the comment d when its sender is a member
AsMember(d) == WalkBody(1, [d EXCEPT !.premium = "0"], config, office_ids).taken

\* C15: with the membership filter on, a non-member's comment gets no Normal
\* directive, but is handled and rendered as Office, Shita or AA exactly as a
\* member's would be; with the filter off it is handled as a member's would
\* be, whatever its category.
C15_FilterNormalOnly ==
    \A k \in 1..Len(outcome) :
        ingested[k].premium = "25" =>
            IF config.filter_outsider
            THEN /\ LinesOf(normal_lines, k) = 0
                 /\ \A b \in {"office", "shita", "aa"} :
                        AsMember(ingested[k]) = {b}
                        => outcome[k] = {b} /\ LinesOf(BlockOf(b), k) = 1
            ELSE /\ outcome[k] = AsMember(ingested[k])
                 /\ outcome[k] # {"outsider"}

\* a run with the filter on in which one non-member's comment was dropped by
\* the filter and another non-member's comment was rendered as AA
C15_Witness ==
    /\ config.filter_outsider
    /\ \E k, m \in 1..Len(outcome) :
          /\ ingested[k].premium = "25"
          /\ outcome[k] = {"outsider"}
          /\ AsMember(ingested[k]) = {"normal"}
          /\ ingested[m].premium = "25"
          /\ outcome[m] = {"aa"}
          /\ LinesOf(aa_lines, m) = 1

----------------------------------------------------------------------------
(* Claims about the time offset, checked under SpecOffset *)

\* the centiseconds a timestamp H:MM:SS.CC of the document stands for
TimeCs(t) == ((t.h * 60 + t.m) * 60 + t.s) * 100 + t.cs

\* the duration of the directives of a block, in seconds
DurationOf(style) ==
    CASE style = "Office" -> OFFICE_DURATION
      [] style = "Shita"  -> SHITA_DURATION
      [] style = "AA"     -> AA_DURATION

\* C16: every Normal directive starts at appearTime + timeOffset and ends
\* 16 s after its start; the start and the end of the Office, Shita and AA
\* directives are what they are without a time offset.
C16_OffsetShiftsNormalOnly ==
    /\ \A n \in 1..Len(normal_lines) :
           LET l == normal_lines[n]
           IN  /\ RInt(TimeCs(l.start))
                     = RMul(RInt(100), StartSeconds(ingested[l.src], config))
               /\ TimeCs(l.end) = TimeCs(l.start) + 100 * NORMAL_DURATION
    /\ \A b \in {"office", "shita", "aa"} :
           \A n \in 1..Len(BlockOf(b)) :
               LET l == BlockOf(b)[n]
               IN  /\ l.start = FormatTime(VposSeconds(ingested[l.src]))
                   /\ l.end = FormatTime(RAdd(VposSeconds(ingested[l.src]),
                                              RInt(DurationOf(l.style))))

----------------------------------------------------------------------------
(* Claims about colours, checked under SpecColor *)

\* the directives that carry a colour
ColouredLines ==
    {normal_lines[n] : n \in 1..Len(normal_lines)}
    \cup {shita_lines[n] : n \in 1..Len(shita_lines)}
    \cup {aa_lines[n] : n \in 1..Len(aa_lines)}

HEXDIGITS == DIGITS \cup {"A", "B", "C", "D", "E", "F", "a", "b", "c", "d", "e", "f"}

\* an explicit hex colour: '#' and six hexadecimal digits
IsHexColour(chars) ==
    /\ Len(chars) = 7
    /\ chars[1] = "#"
    /\ \A i \in 2..7 : chars[i] \in HEXDIGITS

\* the positions of the explicit hex colours in a style token
HexParts(mail) == {i \in 1..Len(mail) : IsHexColour(PartChars(mail[i]))}

\* the positions of the parts that are, without their digits, a name of the
\* colour table
NameParts(mail) ==
    {i \in 1..Len(mail) : \E e \in CSS2ASS : e.name = StripDigits(PartChars(mail[i]))}

\* C17: with colorEnabled off every Normal, Shita and AA directive is white,
\* whatever its style token holds.
C17_ColorsOffAllWhite ==
    ~config.use_ass_colors => \A l \in ColouredLines : l.color = WHITE_ASS

\* C18: when a style token holds an explicit hex colour, the colour of the
\* directive is that hex colour with its components reordered, also when a
\* colour name stands before or after it.
C18_HexBeforeName ==
    config.use_ass_colors =>
        \A l \in ColouredLines :
            LET mail == ingested[l.src].mail
            IN  HexParts(mail) # {} =>
                    l.color = ReorderHex(PartChars(
                        mail[CHOOSE i \in HexParts(mail) : \A j \in HexParts(mail) : i <= j]))

\* C19: a style token that holds neither an explicit hex colour nor, after
\* stripping digits, a name of the colour table gives the default white;
\* so does the empty token.
C19_FallbackWhite ==
    config.use_ass_colors =>
        \A l \in ColouredLines :
            LET mail == ingested[l.src].mail
            IN  (HexParts(mail) = {} /\ NameParts(mail) = {}) => l.color = WHITE_ASS

----------------------------------------------------------------------------
(* Claims about json2xml, checked under SpecJson *)

\* a comment event with a playtime or a time that cannot be parsed
BadTimestamp(event) == event.playtime.kind = "text" \/ event.time.kind = "unparsable"

\* C20: a comment event whose time or playtime cannot be parsed does not
\* abort the conversion; its derived time fields are written as zero, and a
\* finished conversion has written exactly one chat element for every
\* comment event, in the order of the input.
C20_LocalRecovery ==
    /\ json_pc # "error"
    /\ json_pc = "done" =>
          /\ Len(xml_chats) = Len(comments_list)
          /\ \A i \in 1..Len(xml_chats) :
                 /\ xml_chats[i].no = i
                 /\ xml_chats[i].text = DataOfEvent(comments_list[i].data).text
                 /\ comments_list[i].playtime.kind = "text" => xml_chats[i].vpos = 0
                 /\ comments_list[i].time.kind = "unparsable" =>
                        xml_chats[i].date = 0 /\ xml_chats[i].date_usec = 0

----------------------------------------------------------------------------
(* Claims about lane acceptance, checked under SpecSched and SpecCatch *)

\* C21: a lane is accepted through the free-lane rule only if no comment has
\* been assigned to it earlier in the run.
C21_FreeOnlyIfNeverAssigned ==
    \A i, j \in 1..Len(assigned) :
        (i < j /\ assigned[i].lane = assigned[j].lane) => assigned[j].how # "free"

\* the comments the lane scheduler has been called for and returned from
Scheduled ==
    {k \in 1..Len(outcome) : "normal" \in outcome[k] /\ ~(pc = "error" /\ k = idx)}

\* the kinematics of comment k as the scheduler computes them
KinematicsOf(k) ==
    [start |-> StartSeconds(all_danmaku[k], config),
     width |-> TextWidth(all_danmaku[k], config),
     speed |-> AverageSpeed(all_danmaku[k], config)]

\* the assignments made to lane l before comment k was scheduled
EarlierOn(l, k) == {n \in 1..Len(assigned) : assigned[n].lane = l /\ assigned[n].src < k}

\* lane l is free, or its latest occupant and comment k satisfy the
\* occupied-lane acceptance rule
LaneAccepts(l, k) ==
    \/ EarlierOn(l, k) = {}
    \/ LET n == CHOOSE n \in EarlierOn(l, k) : \A m \in EarlierOn(l, k) : m <= n
       IN  AcceptanceRule(assigned[n], KinematicsOf(k), config.danmaku_density)

\* C22: first fit: the lane assigned to a Normal comment is the lowest-index
\* lane that is free or satisfies the occupied-lane acceptance rule, and a
\* Normal comment is dropped only if no lane is free or satisfies the rule.
C22_FirstFit ==
    \A k \in Scheduled :
        IF \E n \in 1..Len(assigned) : assigned[n].src = k
        THEN LET n == CHOOSE n \in 1..Len(assigned) : assigned[n].src = k
             IN  /\ LaneAccepts(assigned[n].lane, k)
                 /\ \A l \in 1..(assigned[n].lane - 1) : ~LaneAccepts(l, k)
        ELSE \A l \in 1..config.limit_line_amount : ~LaneAccepts(l, k)

\* the latest assignment made to lane l before comment k was scheduled
OccupantOf(l, k) ==
    assigned[CHOOSE n \in EarlierOn(l, k) : \A m \in EarlierOn(l, k) : m <= n]

\* the scan for comment k reached lane l: the comment was dropped, or was
\* assigned lane l or a later one
ScanReached(l, k) ==
    \A n \in 1..Len(assigned) : assigned[n].src = k => assigned[n].lane >= l

\* comment k was assigned lane l
AssignedTo(l, k) ==
    \E n \in 1..Len(assigned) : assigned[n].src = k /\ assigned[n].lane = l

\* gap = (newStart - occupantStart) * occupantSpeed + density
GapOf(o, c) == RAdd(RMul(RSub(c.start, o.start), o.speed), RInt(config.danmaku_density))

\* the case of the catch-up rule: gap >= occupantWidth, occupantWidth <
\* newWidth and newSpeed > occupantSpeed
CatchUpCase(o, c) ==
    /\ RGe(GapOf(o, c), RInt(o.width))
    /\ o.width < c.width
    /\ RGt(c.speed, o.speed)

\* C23: for an occupied lane in the catch-up case the lane is accepted if
\* and only if the occupant's remaining on-screen time is strictly less than
\* catchUp = (gap - occupantWidth) / (newSpeed - occupantSpeed), the boundary
\* gap = occupantWidth included.
C23_CatchUpAcceptance ==
    \A k \in Scheduled : \A l \in 1..config.limit_line_amount :
        (/\ EarlierOn(l, k) # {}
         /\ ScanReached(l, k)
         /\ CatchUpCase(OccupantOf(l, k), KinematicsOf(k)))
        => LET o == OccupantOf(l, k)
               c == KinematicsOf(k)
           IN  AssignedTo(l, k) <=>
                  RLt(RSub(RDiv(RInt(VIDEO_WIDTH), o.speed), RSub(c.start, o.start)),
                      RDiv(RSub(GapOf(o, c), RInt(o.width)), RSub(c.speed, o.speed)))

\* the case of the never-catch rule: gap >= occupantWidth, occupantWidth <
\* newWidth and newSpeed <= occupantSpeed
NeverCatchCase(o, c) ==
    /\ RGe(GapOf(o, c), RInt(o.width))
    /\ o.width < c.width
    /\ ~RGt(c.speed, o.speed)

\* the lane at which the scan for the comment at idx stopped, 0 if at none
StoppedAt ==
    ScanLanes(1, StartSeconds(all_danmaku[idx], config), TextWidth(all_danmaku[idx], config),
              AverageSpeed(all_danmaku[idx], config), danmaku_passageway,
              danmaku_passageway_width, danmaku_passageway_speed,
              danmaku_passageway_finish, config)

\* C24: for an occupied lane with gap >= occupantWidth and occupantWidth <
\* newWidth, if newSpeed <= occupantSpeed (equality included) the lane is
\* rejected for this comment and the scan continues with the next lane.
C24_NeverCatch ==
    /\ \A k \in Scheduled : \A l \in 1..config.limit_line_amount :
          (/\ EarlierOn(l, k) # {}
           /\ ScanReached(l, k)
           /\ NeverCatchCase(OccupantOf(l, k), KinematicsOf(k)))
          => ~AssignedTo(l, k)
    /\ (pc = "error" /\ ~SpeedRaises(all_danmaku[idx], config))
          => ~(/\ StoppedAt.verdict = "error"
               /\ EarlierOn(StoppedAt.lane, idx) # {}
               /\ NeverCatchCase(OccupantOf(StoppedAt.lane, idx), KinematicsOf(idx)))

----------------------------------------------------------------------------
(* Claims about the time adjustment, checked under SpecTime *)

\* C25: only Office comments are rescaled: a comment that is not classified
\* Office keeps its ingested appearTime through conversion, and the time of
\* its directive and of its lane scheduling is the ingested value (plus the
\* time offset for Normal).
C25_OnlyOfficeRescaled ==
    \A k \in 1..Len(outcome) :
        (calls = 1 /\ outcome[k] # {"office"})
        => /\ all_danmaku[k].vpos = ingested[k].vpos
           /\ \A n \in 1..Len(normal_lines) :
                  normal_lines[n].src = k
                  => normal_lines[n].start = FormatTime(StartSeconds(ingested[k], config))
           /\ \A n \in 1..Len(assigned) :
                  assigned[n].src = k => assigned[n].start = StartSeconds(ingested[k], config)

----------------------------------------------------------------------------
(* Claims about the lane arrays, checked under SpecCatch and SpecSched *)

\* the four fields of every lane
Lanes ==
    [i \in DOMAIN danmaku_passageway |->
        <<danmaku_passageway[i], danmaku_passageway_width[i],
          danmaku_passageway_speed[i], danmaku_passageway_finish[i]>>]

\* the lane fields the specification gives for an occupant with kinematics c
FieldsOf(c) == <<c.start, c.width, c.speed, RDiv(RInt(VIDEO_WIDTH), c.speed)>>

\* every lane holds the initial zeros or the kinematics of the last comment
\* assigned to it
LanesHoldLast ==
    pc \in {"converting", "done"} =>
        \A i \in DOMAIN Lanes :
            IF EarlierOn(i, Len(all_danmaku) + 1) = {}
            THEN Lanes[i] = <<RInt(0), 0, RInt(0), RInt(0)>>
            ELSE Lanes[i] = FieldsOf(OccupantOf(i, Len(all_danmaku) + 1))

\* one iteration of the loop that returned: a Normal line was added and one
\* lane took the comment's kinematics, or no lane changed
FrameStep ==
    (pc = "converting" /\ pc' = "converting") =>
        IF normal_lines' # normal_lines
        THEN LET d == all_danmaku'[idx]
                 c == [start |-> StartSeconds(d, config), width |-> TextWidth(d, config),
                       speed |-> AverageSpeed(d, config)]
             IN  \E i \in DOMAIN Lanes :
                    /\ DOMAIN Lanes' = DOMAIN Lanes
                    /\ Lanes'[i] = FieldsOf(c)
                    /\ \A j \in DOMAIN Lanes \ {i} : Lanes'[j] = Lanes[j]
        ELSE Lanes' = Lanes

\* C26: processing one comment changes at most one lane: an accepted Normal
\* comment sets the four fields of its lane to its start time, textWidth,
\* averageSpeed and screenWidth / averageSpeed and leaves every other lane
\* alone; a dropped or non-Normal comment changes no lane; so each lane holds
\* the initial zeros or the kinematics of the last comment assigned to it.
C26_LaneFrame == []LanesHoldLast /\ [][FrameStep]_vars

\* a finished run in which the first of two Normal comments took lane 0 and
\* the second was dropped by the scheduler: the lane still holds the first
C26_Witness ==
    /\ pc = "done"
    /\ Len(outcome) = 2
    /\ outcome[1] = {"normal"}
    /\ outcome[2] = {"normal"}
    /\ Len(assigned) = 1
    /\ assigned[1].src = 1
    /\ Lanes[1] = FieldsOf(assigned[1])

\* C27: every Normal directive is placed in a lane of the fixed lane array:
\* its lane index i satisfies 0 <= i < laneCount and its vertical position is
\* laneHeight * i + laneHeight / 2; with laneCount = 0 no Normal directive is
\* produced, and the number of lanes does not change during a run.
C27_LaneRange ==
    /\ \A n \in 1..Len(normal_lines) :
          \E i \in 0..(config.limit_line_amount - 1) :
              /\ normal_lines[n].sy = LINE_HEIGHT * i + LINE_HEIGHT \div 2
              /\ AssignedTo(i + 1, normal_lines[n].src)
    /\ config.limit_line_amount = 0 => normal_lines = <<>>
    /\ pc \in {"converting", "done", "error"} =>
          /\ Len(danmaku_passageway) = config.limit_line_amount
          /\ Len(danmaku_passageway_width) = config.limit_line_amount
          /\ Len(danmaku_passageway_speed) = config.limit_line_amount
          /\ Len(danmaku_passageway_finish) = config.limit_line_amount

\* a finished run of two Normal comments with directives in lanes 0 and 1
C27_Witness ==
    /\ pc = "done"
    /\ config.limit_line_amount = 2
    /\ Len(normal_lines) = 2
    /\ normal_lines[1].sy = 32
    /\ normal_lines[2].sy = 96

----------------------------------------------------------------------------
(* Claims about the scroll speed, checked under SpecCatch and SpecSched *)

\* C28: under one configuration a Normal comment at least as wide as another
\* has an averageSpeed at least as high; hence a comment accepted by the
\* outright-reuse rule is never faster than the occupant it follows.
C28_WiderNeverSlower ==
    /\ \A j, k \in Scheduled :
          KinematicsOf(j).width >= KinematicsOf(k).width
          => RGe(KinematicsOf(j).speed, KinematicsOf(k).speed)
    /\ \A n \in 1..Len(assigned) :
          assigned[n].how = "reuse"
          => ~RGt(assigned[n].speed, OccupantOf(assigned[n].lane, assigned[n].src).speed)

\* averageSpeed of comment k with the speed heuristic switched on or off
SpeedWith(k, heuristic) ==
    AverageSpeed(all_danmaku[k], [config EXCEPT !.use_speed_a = heuristic])

\* C29: with the speed heuristic on, a comment of at most 4 characters
\* scrolls no faster than with the heuristic off, a comment of at least 12
\* characters scrolls no slower, and a comment of a length in between has
\* exactly the averageSpeed it has with the heuristic off.
C29_HeuristicTiers ==
    \A k \in Scheduled :
        config.use_speed_a =>
            LET len == CalcTextLength(all_danmaku[k].text)
            IN  /\ len <= SHORT_LENGTH => ~RGt(SpeedWith(k, TRUE), SpeedWith(k, FALSE))
                /\ len >= LONG_LENGTH => ~RLt(SpeedWith(k, TRUE), SpeedWith(k, FALSE))
                /\ (SHORT_LENGTH < len /\ len < LONG_LENGTH)
                       => SpeedWith(k, TRUE) = SpeedWith(k, FALSE)

----------------------------------------------------------------------------
(* Claims about comment_dl, checked under SpecDl *)

RECURSIVE TrailingIdle(_)
\* the number of consecutive most recent responses that held no new comment
TrailingIdle(h) ==
    IF h = <<>> \/ h[Len(h)].fresh THEN 0
    ELSE 1 + TrailingIdle(SubSeq(h, 1, Len(h) - 1))

\* the request loop is left, by its own exits or by an exception
LoopEnds == <>(dl_pc \in {"done", "error", "save_error"})

\* C30: the download loop ends as soon as the number of consecutive most
\* recent responses that contributed no new comment reaches stop_after_empty,
\* and otherwise after max_requests requests; empty_count counts exactly
\* those responses, is reset to 0 exactly by a response with a new comment
\* and never exceeds stop_after_empty.
C30_LoopStops ==
    /\ dl_pc # "error"
    /\ empty_count = TrailingIdle(responses)
    /\ empty_count <= stop_after_empty
    /\ dl_pc = "loop" =>
          /\ TrailingIdle(responses) < stop_after_empty
          /\ Len(responses) < max_requests
    /\ dl_pc \in {"saving", "done"} =>
          \/ TrailingIdle(responses) = stop_after_empty
          \/ Len(responses) = max_requests

\* the value of a playtime: the number 1 is the same value as the float 1.0,
\* and another value than the string '1'
PlaytimeValue(v) == IF v.type = "str" THEN [text |-> v.val] ELSE [number |-> v.val]

\* the (playtime, time) key of a comment
KeyOf(comment) == <<PlaytimeValue(comment.playtime), comment.time>>

\* the members of a sequence
Members(seq) == {seq[n] : n \in 1..Len(seq)}

\* C31, as stated: the collected list holds no two comments with the same
\* (playtime, time) key, holds a comment of a key if and only if a comment of
\* that key occurred in a parsed response, and holds the first occurrence of
\* each key.
C31_DedupByKey ==
    /\ \A m, n \in 1..Len(all_comments) :
          m # n => KeyOf(all_comments[m]) # KeyOf(all_comments[n])
    /\ {KeyOf(c) : c \in Members(all_comments)} = {KeyOf(c) : c \in Members(occurred)}
    /\ \A c \in Members(all_comments) :
          \E n \in 1..Len(occurred) :
              /\ occurred[n] = c
              /\ \A m \in 1..(n - 1) : KeyOf(occurred[m]) # KeyOf(c)

\* C31, amended: the same with the key of a comment taken to be the string
\* str(playtime) + '_' + time that the code builds: no two collected comments
\* have the same string, a string is that of a collected comment if and only
\* if it is that of a comment of a parsed response, and the collected comment
\* is the first occurrence of its string.
C31_DedupById ==
    /\ \A m, n \in 1..Len(all_comments) :
          m # n => CommentId(all_comments[m]) # CommentId(all_comments[n])
    /\ {CommentId(c) : c \in Members(all_comments)} = {CommentId(c) : c \in Members(occurred)}
    /\ seen_comment_ids = {CommentId(c) : c \in Members(all_comments)}
    /\ \A c \in Members(all_comments) :
          \E n \in 1..Len(occurred) :
              /\ occurred[n] = c
              /\ \A m \in 1..(n - 1) : CommentId(occurred[m]) # CommentId(c)

\* a finished download in which a later comment with the id of an earlier,
\* different one was left out
C31_Witness ==
    /\ dl_pc = "done"
    /\ \E m, n \in 1..Len(occurred) :
          /\ m < n
          /\ CommentId(occurred[m]) = CommentId(occurred[n])
          /\ occurred[m] \in Members(all_comments)
          /\ occurred[n] \notin Members(all_comments)

----------------------------------------------------------------------------
(* replive_recorder.py: the monitoring loop of RepliveRecorder.run *)

MaxLives == 2        \* lives in one answer of the status check
MaxIterations == 2   \* iterations of the monitoring loop that are followed

\* the liveId values the server reports
LiveIds == {"a", "b"}

\* outcomes of one status check: the list was fetched (a live id can be listed
\* twice), no token could be obtained, the request raised, or the answer
\* could not be used
Fetched(lives) == [kind |-> "ok", lives |-> lives]
TokenFailure == [kind |-> "token_failure", lives |-> <<>>]
RequestError == [kind |-> "request_error", lives |-> <<>>]
BadResponse == [kind |-> "bad_response", lives |-> <<>>]

CheckOutcomes ==
    {Fetched(lives) : lives \in SeqsUpTo(LiveIds, MaxLives)}
        \cup {TokenFailure, RequestError, BadResponse}

\* TokenManager.get_token: a cached token that has not expired is returned
\* without a request, so only a refresh can fail
TokenPossible(answer, valid) == answer.kind = "token_failure" => ~valid

\* RepliveRecorder.check_live: the list it returns
check_live(answer) == IF answer.kind = "ok" THEN answer.lives ELSE <<>>

\* RecordingSession.is_alive
is_alive(ps, p) == ps[p].state = "running"

\* the condition of cleanup_ended_recordings under which a session is ended
SessionOver(recs, ps, current_live_ids, live_id) ==
    live_id \notin current_live_ids \/ ~is_alive(ps, recs[live_id])

\* RepliveRecorder.cleanup_ended_recordings(current_lives): the sessions left,
\* the processes after terminate(), and the sessions ended
cleanup_ended_recordings(recs, ps, current_lives) ==
    LET current_live_ids == {current_lives[n] : n \in 1..Len(current_lives)}
        ended_ids == {live_id \in DOMAIN recs :
                         SessionOver(recs, ps, current_live_ids, live_id)}
        ended_procs == {recs[live_id] : live_id \in ended_ids}
    IN  [recordings |-> [live_id \in DOMAIN recs \ ended_ids |-> recs[live_id]],
         procs |-> [p \in 1..Len(ps) |->
                       IF p \in ended_procs
                       THEN [ps[p] EXCEPT !.state = IF @ = "running" THEN "terminated" ELSE @,
                                          !.ended = TRUE]
                       ELSE ps[p]],
         ended |-> {[live_id |-> live_id, process |-> recs[live_id],
                     alive |-> is_alive(ps, recs[live_id])] : live_id \in ended_ids}]

\* RepliveRecorder.start_recording when Popen succeeds: a new process and its session
start_recording(recs, ps, live_id) ==
    [recordings |-> [k \in DOMAIN recs \cup {live_id} |->
                        IF k = live_id THEN Len(ps) + 1 ELSE recs[k]],
     procs |-> Append(ps, [live_id |-> live_id, state |-> "running", ended |-> FALSE])]

\* the test of run before start_recording
NotRecording_Any(recs, live_id) == TRUE

NotRecording(recs, live_id) == live_id \notin DOMAIN recs

\* the loop of run over lives from position n on; fails holds the positions
\* at which start_recording raises (the log file cannot be opened or Popen
\* fails) and returns False
RECURSIVE StartRecordings(_, _, _, _, _, _)
StartRecordings(lives, n, recs, ps, log, fails) ==
    IF n > Len(lives)
    THEN [recordings |-> recs, procs |-> ps, starts |-> log]
    ELSE IF ~NotRecording(recs, lives[n])
    THEN StartRecordings(lives, n + 1, recs, ps, log, fails)
    ELSE LET call == [live_id |-> lives[n], had_session |-> lives[n] \in DOMAIN recs,
                      started |-> n \notin fails]
             st == start_recording(recs, ps, lives[n])
         IN  IF n \in fails
             THEN StartRecordings(lives, n + 1, recs, ps, Append(log, call), fails)
             ELSE StartRecordings(lives, n + 1, st.recordings, st.procs,
                                  Append(log, call), fails)

\* one iteration of the while loop of run: check_live, cleanup_ended_recordings,
\* the start loop, the display update and the sleep, during which the cached
\* token may expire
RunIteration ==
    /\ rec_pc = "monitoring"
    /\ rec_iterations < MaxIterations
    /\ \E answer \in CheckOutcomes, expires \in BOOLEAN :
       \E fails \in SUBSET (1..Len(check_live(answer))) :
          /\ TokenPossible(answer, token_valid)
          /\ LET lives == check_live(answer)
                 cl == cleanup_ended_recordings(recordings, procs, lives)
                 st == StartRecordings(lives, 1, cl.recordings, cl.procs, <<>>, fails)
             IN  /\ checked' = answer
                 /\ ended_sessions' = cl.ended
                 /\ recordings' = st.recordings
                 /\ procs' = st.procs
                 /\ starts' = st.starts
          /\ token_valid' = IF answer.kind = "token_failure" THEN FALSE ELSE ~expires
    /\ rec_iterations' = rec_iterations + 1
    /\ UNCHANGED rec_pc
    /\ UNCHANGED <<xvars, jvars, dvars, cvars>>

\* an ffmpeg process ends by itself
ProcessExits ==
    /\ \E p \in 1..Len(procs) :
          /\ procs[p].state = "running"
          /\ procs' = [procs EXCEPT ![p].state = "exited"]
    /\ UNCHANGED <<rec_pc, token_valid, recordings, checked, ended_sessions, starts,
                   rec_iterations>>
    /\ UNCHANGED <<xvars, jvars, dvars, cvars>>

\* KeyboardInterrupt in run: the summary is printed, no process is terminated
Interrupt ==
    /\ rec_pc = "monitoring"
    /\ rec_pc' = "stopped"
    /\ UNCHANGED <<token_valid, recordings, procs, checked, ended_sessions, starts,
                   rec_iterations>>
    /\ UNCHANGED <<xvars, jvars, dvars, cvars>>

InitRec == InitWith({DefaultConfig})

NextRec ==
    \/ RunIteration
    \/ ProcessExits
    \/ Interrupt

SpecRec == InitRec /\ [][NextRec]_vars

----------------------------------------------------------------------------
(* Claims about replive_recorder.py *)

\* the processes whose session has not been ended by cleanup_ended_recordings
OpenSessions(live_id) ==
    {p \in 1..Len(procs) : procs[p].live_id = live_id /\ ~procs[p].ended}

\* C32: after every iteration of the monitoring loop each live id has at most
\* one recording session (the one self.recordings holds), every live id with a
\* session is in the list of the iteration's status check, and start_recording
\* was called for a live id only when no session for it existed at that moment.
C32_SessionInvariant ==
    /\ \A live_id \in LiveIds :
          /\ Cardinality(OpenSessions(live_id)) <= 1
          /\ live_id \in DOMAIN recordings <=> OpenSessions(live_id) # {}
          /\ live_id \in DOMAIN recordings => OpenSessions(live_id) = {recordings[live_id]}
    /\ DOMAIN recordings \subseteq Members(checked.lives)
    /\ \A n \in 1..Len(starts) : ~starts[n].had_session

\* C32 witness: the status check listed the same live twice; one process was
\* started for it after the session of an earlier one had been ended because
\* its process had exited, and the second listing started nothing.
C32_Witness ==
    /\ checked = Fetched(<<"a", "a">>)
    /\ "a" \in DOMAIN recordings
    /\ Len(starts) = 1 /\ starts[1].started
    /\ recordings["a"] = Len(procs)
    /\ \E e \in ended_sessions : e.live_id = "a" /\ ~e.alive

\* C33: a session is ended only when its live id is absent from a successfully
\* fetched list of current lives or its process has already exited; a status
\* check that fails ends no running recording.
C33_EndedOnlyWhenAbsentOrExited ==
    \A e \in ended_sessions :
        \/ checked.kind = "ok" /\ e.live_id \notin Members(checked.lives)
        \/ ~e.alive

----------------------------------------------------------------------------
(* video_cutter.py: VideoProcessor.process *)

MaxSegments == 3     \* time segments in the configuration file

\* the segment lines of the default configuration file
Segments == {<<"00:03:15", "00:05:12">>, <<"00:15:11", "00:22:33">>}

\* configurations: whether the input file exists, merge_output, whether
\* process() is called inside the with block (temp_dir is set), the segments
CutterConfigs ==
    {[input_exists |-> e, merge_output |-> m, temp_dir |-> t, segments |-> s] :
        e \in BOOLEAN, m \in BOOLEAN, t \in BOOLEAN, s \in SeqsUpTo(Segments, MaxSegments)}

\* what subprocess.run does: the command exits with 0, it exits with another
\* status (CalledProcessError), or another exception is raised (the program
\* cannot be started, its output is not UTF-8)
CommandOutcomes == {"ok", "failed", "raised"}

\* VideoProcessor.run_command, for a command that did not raise past it
run_command(exit) == exit = "ok"

\* os.path.join(self.temp_dir, f"part_{i}.mp4")
PartFile(i) == "part_" \o ToString(i) \o ".mp4"

\* the test of process() after extract_segment
ExtractionFailed_Ignored(extracted) == FALSE

ExtractionFailed(extracted) == ~extracted

\* process() up to the loop: the checks of the input file and of the segments
StartProcess ==
    /\ vc_pc = "entered"
    /\ IF ~vc_config.input_exists \/ vc_config.segments = <<>>
       THEN vc_pc' = "returned" /\ vc_result' = "False"
       ELSE vc_pc' = "extracting" /\ vc_result' = vc_result
    /\ UNCHANGED <<vc_config, vc_i, segment_files, commands>>
    /\ UNCHANGED <<xvars, jvars, dvars, rvars>>

\* one pass of the loop of process(): extract_segment for the next segment,
\* and what follows the loop when it was the last one and merge_output is off
ExtractSegment ==
    /\ vc_pc = "extracting"
    /\ vc_i < Len(vc_config.segments)
    /\ LET i == vc_i + 1
           output_file == PartFile(i)
       IN  IF ~vc_config.temp_dir
           THEN /\ vc_pc' = "returned"
                /\ vc_result' = "False"
                /\ UNCHANGED <<vc_i, segment_files, commands>>
           ELSE \E exit \in CommandOutcomes :
                /\ commands' = Append(commands,
                       [kind |-> "extract", num |-> i, start |-> vc_config.segments[i][1],
                        end |-> vc_config.segments[i][2], files |-> <<output_file>>,
                        exit |-> exit])
                /\ IF exit = "raised"
                   THEN /\ vc_pc' = "raised"
                        /\ UNCHANGED <<vc_i, segment_files, vc_result>>
                   ELSE IF ExtractionFailed(run_command(exit))
                   THEN /\ vc_pc' = "returned"
                        /\ vc_result' = "False"
                        /\ UNCHANGED <<vc_i, segment_files>>
                   ELSE /\ segment_files' = Append(segment_files, output_file)
                        /\ vc_i' = i
                        /\ IF i < Len(vc_config.segments)
                           THEN vc_pc' = "extracting" /\ vc_result' = vc_result
                           ELSE IF vc_config.merge_output
                           THEN vc_pc' = "merging" /\ vc_result' = vc_result
                           ELSE vc_pc' = "returned" /\ vc_result' = "True"
    /\ UNCHANGED vc_config
    /\ UNCHANGED <<xvars, jvars, dvars, rvars>>

\* merge_segments and the return of process()
MergeSegments ==
    /\ vc_pc = "merging"
    /\ \E exit \in CommandOutcomes :
          /\ commands' = Append(commands,
                 [kind |-> "merge", num |-> 0, start |-> "", end |-> "",
                  files |-> segment_files, exit |-> exit])
          /\ IF exit = "raised"
             THEN vc_pc' = "raised" /\ vc_result' = vc_result
             ELSE /\ vc_pc' = "returned"
                  /\ vc_result' = IF run_command(exit) THEN "True" ELSE "False"
    /\ UNCHANGED <<vc_config, vc_i, segment_files>>
    /\ UNCHANGED <<xvars, jvars, dvars, rvars>>

InitCutter == InitFor({DefaultConfig}, CutterConfigs)

NextCutter ==
    \/ StartProcess
    \/ ExtractSegment
    \/ MergeSegments

SpecCutter == InitCutter /\ [][NextCutter]_vars

----------------------------------------------------------------------------
(* Claims about video_cutter.py *)

\* the files part_1.mp4 .. part_n.mp4 in order
PartFiles(n) == [i \in 1..n |-> PartFile(i)]

\* C34: process() extracts the configured segments one by one in configuration
\* order; the merge runs only after every segment was extracted successfully
\* and only when merge_output is set; when the extraction of a segment fails,
\* process() returns False and no later segment is extracted and no merge runs.
C34_StepOrder ==
    /\ \A n \in 1..Len(commands) :
          LET c == commands[n] IN
          /\ c.kind = "extract" =>
                /\ n <= Len(vc_config.segments)
                /\ c.num = n
                /\ <<c.start, c.end>> = vc_config.segments[n]
          /\ c.kind = "merge" =>
                /\ vc_config.merge_output
                /\ n = Len(vc_config.segments) + 1
                /\ \A m \in 1..(n - 1) :
                      commands[m].kind = "extract" /\ commands[m].exit = "ok"
                /\ c.files = PartFiles(Len(vc_config.segments))
          /\ c.exit # "ok" => n = Len(commands)
          /\ c.kind = "extract" /\ c.exit = "failed" =>
                vc_pc = "returned" /\ vc_result = "False"
    /\ vc_result = "True" =>
          /\ Len(commands) = Len(vc_config.segments) + (IF vc_config.merge_output THEN 1 ELSE 0)
          /\ \A n \in 1..Len(commands) : commands[n].exit = "ok"

\* C34 witness: three segments with merge_output set; the first was extracted,
\* the extraction of the second failed and process() has returned False.
C34_Witness ==
    /\ Len(vc_config.segments) = 3
    /\ vc_config.merge_output
    /\ Len(commands) = 2
    /\ commands[1].exit = "ok"
    /\ commands[2].kind = "extract" /\ commands[2].exit = "failed"
    /\ vc_pc = "returned" /\ vc_result = "False"

====
